---------------------------- MODULE Spec2Model ----------------------------
(***************************************************************************)
(* A model of CelestialMCP: the catalog store of utils/astronomy.ts, the   *)
(* object resolver getEquatorialCoordinates and the star-hopping           *)
(* pathfinder StarHoppingTool.execute (tool getStarHoppingPath).           *)
(*                                                                         *)
(* Angles are whole degrees, right ascension whole hours, magnitudes whole *)
(* numbers.  The positions used lie on the celestial equator, where the    *)
(* spherical law of cosines gives whole degrees exactly.                   *)
(***************************************************************************)
EXTENDS Integers, Sequences, FiniteSets, TLC

(***************************************************************************)
(* Bounds of the model.                                                    *)
(***************************************************************************)
\* The longest star catalog Init draws.
MaxStars == 3

(***************************************************************************)
(* Values of the program.                                                  *)
(***************************************************************************)
\* `magnitude?: number`: the value of an absent magnitude.
Undefined == 999

\* `a.magnitude ?? Infinity` in the comparator of the start-star sort.
Infinity == 1000

\* The number -Infinity.
NegInfinity == -1000

\* The value of a column the file's header does not have (record.x is
\* undefined), among the strings of a parsed row.
NoColumn == "<undefined>"

\* SOLAR_SYSTEM_OBJECTS: the keys of the record, all mapped to true.
SOLAR_SYSTEM_OBJECTS ==
    {"sun", "moon", "mercury", "venus", "earth", "mars", "jupiter", "saturn",
     "uranus", "neptune", "pluto"}

\* The statuses execute() can return (its six `status:` literals).
Statuses ==
    {"Success", "TargetNotFound", "TargetNotVisible", "NoStartingStarFound",
     "TargetInStartFOV", "PathNotFound"}

(***************************************************************************)
(* Inputs Init draws from.                                                 *)
(***************************************************************************)
\* Right ascensions (hours) of the catalogued stars: 15 degrees apart.  The
\* deep-sky object of the model lies at 0 h, the planet at 3 h.
RAHours == {1, 2, 3}

\* Magnitudes a star row can carry: 2 and 3 pass the start threshold 3,
\* 9 fails the hop limit 8, Undefined is a row without a magnitude.
Magnitudes == {2, 3, 9, Undefined}

\* What Astronomy.Horizon can answer for a position: below, on and above
\* the horizon.
Altitudes == {-1, 0, 1}

\* Keys of STAR_CATALOG, in insertion order.
StarKeys == <<"sirius", "vega", "deneb", "altair", "rigel">>

\* The display name stored with each star key.
StarNames == <<"Sirius", "Vega", "Deneb", "Altair", "Rigel">>

\* The key a star's alternative name (alt_name, BayerFlamsteed) gives.
AltKeys == <<"alpha cma", "alpha lyr", "alpha cyg", "alpha aql", "beta ori">>

\* Names a caller may pass as targetObjectName.
TargetNames == {"M31", "Sirius", "Mars", "Nowhere"}

\* String.prototype.toLowerCase on the names of the model.
toLowerCase(s) ==
    CASE s = "M31" -> "m31"
      [] s = "Andromeda Galaxy" -> "andromeda galaxy"
      [] s = "Sirius" -> "sirius"
      [] s = "Vega" -> "vega"
      [] s = "Deneb" -> "deneb"
      [] s = "Altair" -> "altair"
      [] s = "Rigel" -> "rigel"
      [] s = "Mars" -> "mars"
      [] s = "Nowhere" -> "nowhere"
      [] s = "SIRIUS" -> "sirius"
      [] s = "Constructor" -> "constructor"
      [] s = "NGC224" -> "ngc224"
      [] s = "NGC205" -> "ngc205"
      [] s = "NGC1952" -> "ngc1952"
      [] s = "IC10" -> "ic10"
      [] s = "IC2" -> "ic2"
      [] s = "M1" -> "m1"
      [] s = "M110" -> "m110"
      [] s = "Hyades" -> "hyades"
      [] s = "Pleiades" -> "pleiades"
      [] s = "And" -> "and"
      [] s = "Tau" -> "tau"
      [] s = "CMa" -> "cma"
      [] s = "MNaN" -> "mnan"
      [] s = "Alpha CMa" -> "alpha cma"
      [] s = "9Alp CMa" -> "9alp cma"
      [] s = "HIP 32349" -> "hip 32349"
      [] s = "HD 48915" -> "hd 48915"
      [] s = "Star mag 5.0" -> "star mag 5.0"
      [] s = "Star mag 5.0 in CMa" -> "star mag 5.0 in cma"
      [] OTHER -> s

(***************************************************************************)
(* Coordinate math.                                                        *)
(***************************************************************************)
Abs(x) == IF x < 0 THEN -x ELSE x

\* acos(cos(d)) in degrees for a whole number of degrees d >= 0.
FoldDegrees(d) == LET m == d % 360 IN IF m > 180 THEN 360 - m ELSE m

\* The number NaN, which parseFloat answers for text that is no number and
\* Math.acos for a number beyond [-1, 1].
NaN == 998

\* cosDeltaSigma of lines 1049-1051: the cosine of the separation by the
\* spherical law of cosines, on the positions where the separation is a
\* whole number of degrees (both on the equator, equal or opposite right
\* ascension, or one of them a pole).  The number is kept as the angle it
\* is the cosine of and as how many units in the last place the floating
\* point sum is above the exact cosine (`excess`).
CosDeltaSigma(coords1, coords2, excess) ==
    LET dRa == FoldDegrees(Abs(coords1.rightAscension * 15
                               - coords2.rightAscension * 15))
        dec1 == coords1.declination
        dec2 == coords2.declination
    IN [angle |-> CASE dec1 = 0 /\ dec2 = 0 -> dRa
                    [] dRa = 0 -> Abs(dec1 - dec2)
                    [] dRa = 180 -> 180 - Abs(dec1 + dec2)
                    [] Abs(dec1) = 90 \/ Abs(dec2) = 90 -> Abs(dec1 - dec2),
        excess |-> excess]

\* The number is above 1 or below -1.
BeyondUnit(cosine) ==
    \/ cosine.angle = 0 /\ cosine.excess > 0
    \/ cosine.angle = 180 /\ cosine.excess < 0

\* The cosine left as the sum gave it.
Clamp_None(cosine) == cosine

\* Line 1054: Math.max(-1, Math.min(1, cosDeltaSigma)).
Clamp(cosine) ==
    IF BeyondUnit(cosine) THEN [cosine EXCEPT !.excess = 0] ELSE cosine

\* Line 1056: Math.acos(c) * (180 / Math.PI), to the whole degree.
AcosDegrees(cosine) == IF BeyondUnit(cosine) THEN NaN ELSE cosine.angle

\* calculateAngularSeparation (lines 1039-1057) when the sum of line 1049
\* comes out `excess` units off the exact cosine.
AngularSeparation(coords1, coords2, excess) ==
    AcosDegrees(Clamp(CosDeltaSigma(coords1, coords2, excess)))

\* calculateAngularSeparation, the sum being exact.
calculateAngularSeparation(coords1, coords2) ==
    AngularSeparation(coords1, coords2, 0)

(***************************************************************************)
(* JavaScript numbers and strings, on the values of the model: whole       *)
(* numbers, NaN and the two infinities.                                    *)
(***************************************************************************)
isNaN(x) == x = NaN

IsFinite(x) == x \notin {NaN, Infinity, NegInfinity}

\* a + b.
JsAdd(a, b) ==
    IF isNaN(a) \/ isNaN(b) THEN NaN
    ELSE IF ~IsFinite(a) THEN (IF ~IsFinite(b) /\ b # a THEN NaN ELSE a)
    ELSE IF ~IsFinite(b) THEN b
    ELSE a + b

\* a * sign, for sign 1 or -1.
JsTimesSign(a, sign) ==
    IF isNaN(a) THEN NaN
    ELSE IF sign = 1 THEN a
    ELSE IF a = Infinity THEN NegInfinity
    ELSE IF a = NegInfinity THEN Infinity
    ELSE -a

\* a / d for a positive whole d; the finite values of the model divide
\* without remainder.
JsDiv(a, d) == IF IsFinite(a) THEN a \div d ELSE a

\* a * k for a positive whole k.
JsTimes(a, k) == IF IsFinite(a) THEN a * k ELSE a

\* a < b: false when either is NaN.
JsLess(a, b) == ~isNaN(a) /\ ~isNaN(b) /\ a < b

\* parseFloat on the texts of the model: the whole numbers written in the
\* files, the two infinities, and NaN for anything else.
parseFloat(text) ==
    CASE text \in {"0", "00", "+00", "-00"} -> 0
      [] text \in {"1", "01", "+01"} -> 1
      [] text \in {"2", "02"} -> 2
      [] text \in {"3", "03"} -> 3
      [] text \in {"5", "05"} -> 5
      [] text = "6" -> 6
      [] text = "7" -> 7
      [] text = "9" -> 9
      [] text = "15" -> 15
      [] text = "30" -> 30
      [] text = "45" -> 45
      [] text = "59" -> 59
      [] text \in {"89", "+89"} -> 89
      [] text = "95" -> 95
      [] text \in {"-1", "-01"} -> -1
      [] text = "-89" -> -89
      [] text = "-95" -> -95
      [] text = "Infinity" -> Infinity
      [] text = "-Infinity" -> NegInfinity
      [] OTHER -> NaN

\* String.prototype.trim on the texts of the model: the blank one and the
\* one with spaces around it change.
trim(text) ==
    CASE text = "  " -> ""
      [] text = " Sirius " -> "Sirius"
      [] OTHER -> text

\* Truthiness of a string field: a missing column and the empty string
\* are falsy, a blank string is not.
Truthy(text) == text # NoColumn /\ text # ""

(***************************************************************************)
(* The state.                                                              *)
(***************************************************************************)
VARIABLES
    STAR_CATALOG,     \* Map<string, EquatorialCoordinates> in insertion order
    DSO_CATALOG,      \* Map<string, EquatorialCoordinates> in insertion order
    COMMON_NAMES,     \* Map<string, string>: alias -> DSO key
    horizon,          \* the altitudes Astronomy.Horizon has answered at `date`
    params,           \* the StarHoppingInput of the invocation
    pc,               \* position of execute()
    targetEquatorial, \* what the resolver returned
    targetAltAz,
    startStar,
    currentHopStar,
    currentDistanceToTarget,
    visitedStarIds,
    hopNum,
    hopSequence,
    scanned,          \* number of star-catalog scans execute() has run
    result,           \* the object execute() returned
    dataDir,          \* the catalog files found in data/
    phase,            \* position of the process, from import to serving
    ingestionRuns,    \* how many times initializeCatalogs has completed
    lookup,           \* the last request answered besides star hopping,
                      \* its outcome, and where execute() stood meanwhile
    call              \* the last call of a function of the catalog store
                      \* made on its own: its name, arguments and value

vars ==
    <<STAR_CATALOG, DSO_CATALOG, COMMON_NAMES, horizon, params, pc,
      targetEquatorial, targetAltAz, startStar, currentHopStar,
      currentDistanceToTarget, visitedStarIds, hopNum, hopSequence, scanned,
      result, dataDir, phase, ingestionRuns, lookup, call>>

catalogVars == <<STAR_CATALOG, DSO_CATALOG, COMMON_NAMES, params>>

serverVars == <<dataDir, phase, ingestionRuns, lookup, call>>


(***************************************************************************)
(* Maps, kept as sequences of [key, value] in insertion order.             *)
(***************************************************************************)
MapHas(map, k) == \E i \in 1..Len(map) : map[i].key = k

MapGet(map, k) == map[CHOOSE i \in 1..Len(map) : map[i].key = k].value

MapKeys(map) == {map[i].key : i \in 1..Len(map)}

\* An EquatorialCoordinates value without name and magnitude, as
\* getSolarSystemCoordinates builds it.
BareCoordinates(ra, dec) ==
    [name |-> "", rightAscension |-> ra, declination |-> dec,
     magnitude |-> Undefined]

\* The value of a variable execute() has not assigned yet.
NoCoordinates == BareCoordinates(0, 0)

NoAltAz == [altitude |-> 0]

\* CelestialObjectData: { ...coords, id, altAz }.
ObjectData(coords, id, altAz) ==
    [id |-> id, name |-> coords.name,
     rightAscension |-> coords.rightAscension,
     declination |-> coords.declination, magnitude |-> coords.magnitude,
     altAz |-> altAz]

NoStar == ObjectData(NoCoordinates, "", NoAltAz)

(***************************************************************************)
(* The object resolver.                                                    *)
(***************************************************************************)
Returned(coords) == [threw |-> FALSE, coords |-> coords, message |-> ""]

\* An Error raised with `message`.
Threw(message) ==
    [threw |-> TRUE, coords |-> NoCoordinates, message |-> message]

\* The properties every object literal inherits from Object.prototype
\* whose names are written in lower case: SOLAR_SYSTEM_OBJECTS[name] is
\* truthy for them too (the constructor function, the prototype object).
ObjectPrototypeKeys == {"constructor", "__proto__"}

\* `SOLAR_SYSTEM_OBJECTS[normalizedName]` taken as a condition (line 610).
SolarSystemLookup(normalizedName) ==
    normalizedName \in SOLAR_SYSTEM_OBJECTS \cup ObjectPrototypeKeys

\* getSolarSystemCoordinates: for a body of Astronomy.Body the ephemeris
\* answers with a position.  For 'earth' Astronomy.Equator is asked for the
\* observer's own body, and for '__proto__' it is handed an object that is
\* no body: the call may also raise.  A name that is no key of
\* Astronomy.Body raises (lines 581-588).
getSolarSystemCoordinates(name) ==
    IF name = "constructor"
      THEN {Threw("Unknown solar system object: " \o name)}
    ELSE {Returned(BareCoordinates(3, 0))}
            \cup (IF name \in {"earth", "__proto__"}
                    THEN {Threw("astronomy-engine")} ELSE {})

\* Line 633: the error for a name no level knows.
UnknownObjectError(objectName) ==
    Threw("Unknown celestial object: " \o objectName
          \o ". Try running 'npm run fetch-catalogs'")

\* getEquatorialCoordinates: the outcomes of one call, each a returned
\* record or a raised error.
getEquatorialCoordinates(objectName) ==
    LET normalizedName == toLowerCase(objectName)
    IN IF SolarSystemLookup(normalizedName)
         THEN getSolarSystemCoordinates(normalizedName)
       ELSE IF /\ MapHas(COMMON_NAMES, normalizedName)
               /\ MapHas(DSO_CATALOG, MapGet(COMMON_NAMES, normalizedName))
         THEN {Returned(MapGet(DSO_CATALOG,
                               MapGet(COMMON_NAMES, normalizedName)))}
       ELSE IF MapHas(STAR_CATALOG, normalizedName)
         THEN {Returned(MapGet(STAR_CATALOG, normalizedName))}
       ELSE IF MapHas(DSO_CATALOG, normalizedName)
         THEN {Returned(MapGet(DSO_CATALOG, normalizedName))}
       ELSE {UnknownObjectError(objectName)}

(***************************************************************************)
(* The sky.  Astronomy.Horizon is a function of the position alone within  *)
(* one invocation (one date, one observer); what it answers is not known   *)
(* to the program.  horizon holds the answers given so far, and a call for *)
(* a new position may be answered with any altitude.                       *)
(***************************************************************************)
Position(coords) == <<coords.rightAscension, coords.declination>>

\* The skies that agree with horizon and also answer for the positions
\* `need`.
Skies(need) ==
    LET new == need \ DOMAIN horizon
    IN {[p \in DOMAIN horizon \cup new |->
            IF p \in DOMAIN horizon THEN horizon[p] ELSE f[p]] :
        f \in [new -> Altitudes]}

\* convertToAltAz under a sky.  The azimuth is left out: execute() only
\* prints it.
convertToAltAz(coords, sky) == [altitude |-> sky[Position(coords)]]

(***************************************************************************)
(* Start-star selection.                                                   *)
(***************************************************************************)
\* StartStarInRange without the search-radius test of lines 284-287.
StartStarInRange_NoRadius(entry) ==
    ~(\/ entry.value.magnitude = Undefined
      \/ entry.value.magnitude > params.startStarMagnitudeThreshold)

\* The tests of lines 281-287: TRUE when neither `continue` is taken, so
\* that the entry's altitude is asked for.
StartStarInRange(entry) ==
    /\ ~(\/ entry.value.magnitude = Undefined
         \/ entry.value.magnitude > params.startStarMagnitudeThreshold)
    /\ ~(calculateAngularSeparation(entry.value, targetEquatorial)
            > params.initialSearchRadiusDegrees)

\* The body of the scan of lines 280-293: TRUE when the entry is pushed.
StartStarQualifies(entry, sky) ==
    /\ StartStarInRange(entry)
    /\ ~(convertToAltAz(entry.value, sky).altitude <= 0)

\* potentialStartStars after the scan, in catalog iteration order.
PotentialStartStars(sky) ==
    LET kept == SelectSeq(STAR_CATALOG,
                          LAMBDA entry : StartStarQualifies(entry, sky))
    IN [i \in 1..Len(kept) |->
          ObjectData(kept[i].value, kept[i].key,
                     convertToAltAz(kept[i].value, sky))]

\* CompareMagnitude with the operands swapped: a descending sort.
CompareMagnitude_Descending(a, b) ==
    (IF b.magnitude = Undefined THEN Infinity ELSE b.magnitude)
        - (IF a.magnitude = Undefined THEN Infinity ELSE a.magnitude)

\* The comparator of line 308.
CompareMagnitude(a, b) ==
    (IF a.magnitude = Undefined THEN Infinity ELSE a.magnitude)
        - (IF b.magnitude = Undefined THEN Infinity ELSE b.magnitude)

\* One insertion of the stable sort: x goes after every element that does
\* not compare greater than it.
RECURSIVE InsertSorted(_, _)
InsertSorted(x, sorted) ==
    IF sorted = <<>> THEN <<x>>
    ELSE IF CompareMagnitude(sorted[1], x) <= 0
      THEN <<sorted[1]>> \o InsertSorted(x, Tail(sorted))
    ELSE <<x>> \o sorted

\* Array.prototype.sort with the comparator of line 308 (a stable sort).
RECURSIVE SortByMagnitude(_)
SortByMagnitude(stars) ==
    IF stars = <<>> THEN <<>>
    ELSE InsertSorted(stars[Len(stars)],
                      SortByMagnitude(SubSeq(stars, 1, Len(stars) - 1)))

(***************************************************************************)
(* The hop loop.                                                           *)
(***************************************************************************)
\* targetData.id of line 271.
TargetId == toLowerCase(params.targetObjectName)

NoHop == [found |-> FALSE, star |-> NoStar, dist |-> 0]

\* HopCandidateInReach without the field-of-view test of lines 361-364.
HopCandidateInReach_NoFov(entry) ==
    /\ ~(entry.key \in visitedStarIds \/ entry.key = TargetId)
    /\ ~(\/ entry.value.magnitude = Undefined
         \/ entry.value.magnitude > params.maxHopMagnitude)
    /\ ~(calculateAngularSeparation(entry.value, targetEquatorial)
            >= currentDistanceToTarget)

\* The tests of lines 354-369 of one catalog entry: TRUE when none of
\* the four `continue` is taken, so that the entry's altitude is asked for.
HopCandidateInReach(entry) ==
    /\ ~(entry.key \in visitedStarIds \/ entry.key = TargetId)
    /\ ~(\/ entry.value.magnitude = Undefined
         \/ entry.value.magnitude > params.maxHopMagnitude)
    /\ ~(calculateAngularSeparation(currentHopStar, entry.value)
            > params.fovDegrees)
    /\ ~(calculateAngularSeparation(entry.value, targetEquatorial)
            >= currentDistanceToTarget)

\* The tests of lines 354-374: TRUE when no `continue` is taken.
HopCandidatePasses(entry, sky) ==
    /\ HopCandidateInReach(entry)
    /\ ~(convertToAltAz(entry.value, sky).altitude <= 0)

\* IsBetterHop without its comparison: every passing candidate replaces
\* the best one, so the last one in catalog order wins.
IsBetterHop_LastWins(candidateDistToTarget, smallestDistToTargetForNextHop) ==
    TRUE

\* Lines 377-380: whether the candidate replaces the best one found so far.
IsBetterHop(candidateDistToTarget, smallestDistToTargetForNextHop) ==
    candidateDistToTarget < smallestDistToTargetForNextHop

\* ScanForNextHop with `>` at line 367 and `<=` at line 377: a candidate
\* as far from the target as the current star is accepted.
RECURSIVE ScanForNextHop_NotStrict(_, _, _)
ScanForNextHop_NotStrict(i, best, sky) ==
    IF i > Len(STAR_CATALOG) THEN best
    ELSE LET entry == STAR_CATALOG[i]
             candidateDistToTarget ==
                 calculateAngularSeparation(entry.value, targetEquatorial)
             smallest ==
                 IF best.found THEN best.dist ELSE currentDistanceToTarget
         IN IF /\ ~(entry.key \in visitedStarIds \/ entry.key = TargetId)
               /\ ~(\/ entry.value.magnitude = Undefined
                    \/ entry.value.magnitude > params.maxHopMagnitude)
               /\ ~(calculateAngularSeparation(currentHopStar, entry.value)
                       > params.fovDegrees)
               /\ ~(candidateDistToTarget > currentDistanceToTarget)
               /\ Position(entry.value) \in DOMAIN sky
               /\ ~(convertToAltAz(entry.value, sky).altitude <= 0)
               /\ candidateDistToTarget <= smallest
              THEN ScanForNextHop_NotStrict(i + 1,
                       [found |-> TRUE,
                        star |-> ObjectData(entry.value, entry.key,
                                            convertToAltAz(entry.value, sky)),
                        dist |-> candidateDistToTarget],
                       sky)
            ELSE ScanForNextHop_NotStrict(i + 1, best, sky)

\* The scan of lines 353-381 from entry i on, with the best hop so far.
RECURSIVE ScanForNextHop(_, _, _)
ScanForNextHop(i, best, sky) ==
    IF i > Len(STAR_CATALOG) THEN best
    ELSE LET entry == STAR_CATALOG[i]
             candidateDistToTarget ==
                 calculateAngularSeparation(entry.value, targetEquatorial)
             smallest ==
                 IF best.found THEN best.dist ELSE currentDistanceToTarget
         IN IF /\ HopCandidatePasses(entry, sky)
               /\ IsBetterHop(candidateDistToTarget, smallest)
              THEN ScanForNextHop(i + 1,
                       [found |-> TRUE,
                        star |-> ObjectData(entry.value, entry.key,
                                            convertToAltAz(entry.value, sky)),
                        dist |-> candidateDistToTarget],
                       sky)
            ELSE ScanForNextHop(i + 1, best, sky)

\* bestNextHop and smallestDistToTargetForNextHop after one scan.
BestNextHop(sky) == ScanForNextHop(1, NoHop, sky)

\* The entry pushed on hopSequence (lines 387-399): the two stars are kept
\* whole, where the program prints their name, magnitude and coordinates.
HopRecord(n, from, to) ==
    [hopNumber |-> n, fromStar |-> from, toStar |-> to,
     angularDistanceDegrees |-> calculateAngularSeparation(from, to)]

(***************************************************************************)
(* The objects execute() returns.  `keys` are the properties present.      *)
(***************************************************************************)
NoResult ==
    [status |-> "", keys |-> {}, targetCoordinates |-> NoCoordinates,
     startStar |-> NoStar, hopSequence |-> <<>>, finalStepFrom |-> NoStar]

\* An early return whose object lacks the status property.
EarlyResult_NoStatus(status) ==
    [NoResult EXCEPT !.keys = {"targetObjectName", "summaryMessage"}]

\* Lines 247-305: the object of a return before the hop loop.
EarlyResult(status) ==
    [NoResult EXCEPT
        !.status = status,
        !.keys = IF status = "TargetNotFound"
                   THEN {"targetObjectName", "status", "summaryMessage"}
                 ELSE {"targetObjectName", "targetCoordinates",
                       "fieldOfViewDegrees", "status", "summaryMessage"},
        !.targetCoordinates = IF status = "TargetNotFound" THEN NoCoordinates
                              ELSE targetEquatorial]

\* PathResult reporting no hop at all, whatever the loop made.
PathResult_NoHops(status, start, hops, from) ==
    [status |-> status,
     keys |-> {"targetObjectName", "targetCoordinates", "fieldOfViewDegrees",
               "startStar", "hopSequence", "finalStep", "status",
               "summaryMessage"},
     targetCoordinates |-> targetEquatorial, startStar |-> start,
     hopSequence |-> <<>>, finalStepFrom |-> from]

\* { ...baseResponse, hopSequence, finalStep, status, summaryMessage }.
PathResult(status, start, hops, from) ==
    [status |-> status,
     keys |-> {"targetObjectName", "targetCoordinates", "fieldOfViewDegrees",
               "startStar", "hopSequence", "finalStep", "status",
               "summaryMessage"},
     targetCoordinates |-> targetEquatorial, startStar |-> start,
     hopSequence |-> hops, finalStepFrom |-> from]

(***************************************************************************)
(* Initial states: the catalogs as ingestion left them, the sky at the     *)
(* invocation's date, and the caller's parameters.                         *)
(***************************************************************************)
\* Which entries of a catalog of n entries are stored under an alternative
\* name: such an entry follows the entry of its primary name.
AltPatterns(n) ==
    {alt \in [1..n -> BOOLEAN] :
        \A k \in 1..n : alt[k] => (k > 1 /\ ~alt[k - 1])}

\* The records loadStarCatalog stores: the name of the key, a position on
\* the equator, a magnitude or none; under the alternative name the same
\* record once more (lines 463-472).
StarCatalogs ==
    UNION {
        {[i \in 1..n |->
            IF alt[i]
              THEN [key |-> AltKeys[i - 1],
                    value |-> [name |-> StarNames[i - 1],
                               rightAscension |-> ra[i - 1],
                               declination |-> 0,
                               magnitude |-> mag[i - 1],
                               constellation |-> NoColumn]]
            ELSE [key |-> StarKeys[i],
                  value |-> [name |-> StarNames[i],
                             rightAscension |-> ra[i], declination |-> 0,
                             magnitude |-> mag[i],
                             constellation |-> NoColumn]]] :
            ra \in [1..n -> RAHours], mag \in [1..n -> Magnitudes],
            alt \in AltPatterns(n)} :
        n \in 0..MaxStars}

\* NGC224 with Messier number 31 and a common name, as loadDSOCatalog
\* stores it: one record under each key, the alias to the first.
AndromedaCatalog ==
    <<[key |-> "ngc224",
       value |-> [name |-> "NGC224", rightAscension |-> 0, declination |-> 0,
                  magnitude |-> 3, type |-> "G", constellation |-> "And",
                  object |-> 3]],
      [key |-> "m31",
       value |-> [name |-> "M31", rightAscension |-> 0, declination |-> 0,
                  magnitude |-> 3, type |-> "G", constellation |-> "And",
                  object |-> 4]]>>

AndromedaAliases == <<[key |-> "andromeda galaxy", value |-> "ngc224"]>>

\* The caller's parameters: the field of view with the search radius, and
\* maxHops (Undefined: left out, so that `params.maxHops ?? 20` applies).
ParamSets ==
    {[targetObjectName |-> t, fovDegrees |-> c[1],
      initialSearchRadiusDegrees |-> c[2], maxHopMagnitude |-> 8,
      startStarMagnitudeThreshold |-> 3, maxHops |-> c[3]] :
        t \in TargetNames,
        c \in {<<15, 30, 1>>, <<15, 45, 1>>, <<15, 45, Undefined>>,
               <<30, 45, 1>>}}

\* A catalog file is its name and its parsed rows; NoFile stands for a
\* kind of catalog of which data/ holds no file.
NoFile == [name |-> "", rows |-> <<>>]

\* No request has been answered yet.
NoLookup ==
    [request |-> "", name |-> "", outcome |-> Returned(NoCoordinates),
     during |-> "idle"]

\* index.ts, lines 1085-1092, runs initializeCatalogs once more after the
\* run of the module's import: two runs have completed when tools are
\* served.
RunsBeforeServing == 2

\* No function has been called on its own.
NoCall == [operation |-> "", input |-> <<>>, output |-> <<>>]

Init ==
    /\ dataDir = [star |-> NoFile, dso |-> NoFile]
    /\ phase = "serving"
    /\ ingestionRuns = RunsBeforeServing
    /\ lookup = NoLookup
    /\ call = NoCall
    /\ STAR_CATALOG \in StarCatalogs
    /\ DSO_CATALOG = AndromedaCatalog
    /\ COMMON_NAMES = AndromedaAliases
    /\ horizon = <<>>
    /\ params \in ParamSets
    /\ pc = "resolve"
    /\ targetEquatorial = NoCoordinates
    /\ targetAltAz = NoAltAz
    /\ startStar = NoStar
    /\ currentHopStar = NoStar
    /\ currentDistanceToTarget = 0
    /\ visitedStarIds = {}
    /\ hopNum = 0
    /\ hopSequence = <<>>
    /\ scanned = 0
    /\ result = NoResult

(***************************************************************************)
(* StarHoppingTool.execute, one action per stretch of its code.            *)
(***************************************************************************)
Return(r) ==
    /\ result' = r
    /\ pc' = "done"

\* ResolveTarget without the try/catch of lines 245-253: the resolver's
\* error leaves execute() and nothing is returned.
ResolveTarget_NoCatch ==
    /\ pc = "resolve"
    /\ \E outcome \in getEquatorialCoordinates(params.targetObjectName) :
          IF outcome.threw
            THEN /\ pc' = "threw"
                 /\ UNCHANGED targetEquatorial
          ELSE /\ targetEquatorial' = outcome.coords
               /\ pc' = "visibility"
    /\ UNCHANGED <<catalogVars, serverVars,
                 horizon, targetAltAz, startStar,
                   currentHopStar, currentDistanceToTarget, visitedStarIds,
                   hopNum, hopSequence, scanned, result>>

\* Lines 244-253: resolve the target; a raised error is caught.
ResolveTarget ==
    /\ pc = "resolve"
    /\ \E outcome \in getEquatorialCoordinates(params.targetObjectName) :
          IF outcome.threw
            THEN /\ Return(EarlyResult("TargetNotFound"))
                 /\ UNCHANGED targetEquatorial
          ELSE /\ targetEquatorial' = outcome.coords
               /\ pc' = "visibility"
               /\ UNCHANGED result
    /\ UNCHANGED <<catalogVars, serverVars,
                 horizon, targetAltAz, startStar,
                   currentHopStar, currentDistanceToTarget, visitedStarIds,
                   hopNum, hopSequence, scanned>>

\* BelowHorizon with `<` for `<=`.
BelowHorizon_Strict(altAz) == altAz.altitude < 0

\* Line 256: the target is on or below the horizon.
BelowHorizon(altAz) == altAz.altitude <= 0

\* Lines 255-267: the target's altitude.
CheckTargetVisible ==
    /\ pc = "visibility"
    /\ horizon' \in Skies({Position(targetEquatorial)})
    /\ targetAltAz' = convertToAltAz(targetEquatorial, horizon')
    /\ IF BelowHorizon(targetAltAz')
         THEN Return(EarlyResult("TargetNotVisible"))
       ELSE /\ pc' = "selectStart"
            /\ UNCHANGED result
    /\ UNCHANGED <<catalogVars, serverVars,
                 targetEquatorial, startStar, currentHopStar,
                   currentDistanceToTarget, visitedStarIds, hopNum,
                   hopSequence, scanned>>

\* Lines 276-309: scan the star catalog, sort by magnitude, take the first.
SelectStartStar ==
    /\ pc = "selectStart"
    /\ scanned' = scanned + 1
    /\ horizon' \in Skies({Position(STAR_CATALOG[i].value) :
                              i \in {j \in 1..Len(STAR_CATALOG) :
                                        StartStarInRange(STAR_CATALOG[j])}})
    /\ IF Len(PotentialStartStars(horizon')) = 0
         THEN /\ Return(EarlyResult("NoStartingStarFound"))
              /\ UNCHANGED startStar
       ELSE /\ startStar' = SortByMagnitude(PotentialStartStars(horizon'))[1]
            /\ pc' = "startFov"
            /\ UNCHANGED result
    /\ UNCHANGED <<catalogVars, serverVars,
                 targetEquatorial, targetAltAz, currentHopStar,
                   currentDistanceToTarget, visitedStarIds, hopNum,
                   hopSequence>>

\* TargetInStartFOV with `<` for `<=`.
TargetInStartFOV_Strict(initialSeparationToTarget) ==
    initialSeparationToTarget < params.fovDegrees

\* Line 328: the target is in the start star's field.
TargetInStartFOV(initialSeparationToTarget) ==
    initialSeparationToTarget <= params.fovDegrees

\* Lines 311-348: the target may already be in the start star's field.
CheckStartFOV ==
    LET initialSeparationToTarget ==
            calculateAngularSeparation(startStar, targetEquatorial)
    IN /\ pc = "startFov"
       /\ IF TargetInStartFOV(initialSeparationToTarget)
            THEN /\ Return(PathResult("TargetInStartFOV", startStar, <<>>,
                                      startStar))
                 /\ UNCHANGED <<currentHopStar, currentDistanceToTarget,
                                visitedStarIds, hopNum, hopSequence>>
          ELSE /\ hopSequence' = <<>>
               /\ currentHopStar' = startStar
               /\ currentDistanceToTarget' = initialSeparationToTarget
               /\ visitedStarIds' = {startStar.id}
               /\ hopNum' = 1
               /\ pc' = "hop"
               /\ UNCHANGED result
       /\ UNCHANGED <<catalogVars, serverVars,
                 horizon, targetEquatorial, targetAltAz,
                      startStar, scanned>>

\* ReachedTarget with `<` for `<=`.
ReachedTarget_Strict(distanceToTarget) == distanceToTarget < params.fovDegrees

\* Line 405: the star advanced to has the target in its field.
ReachedTarget(distanceToTarget) == distanceToTarget <= params.fovDegrees

\* maxHops with the loop test `hopNum <= maxHops + 1`: one iteration more.
maxHops_OneMore ==
    IF params.maxHops = Undefined THEN 20 + 1 ELSE params.maxHops + 1

\* Line 348: `params.maxHops ?? 20`.
maxHops == IF params.maxHops = Undefined THEN 20 ELSE params.maxHops

\* Lines 349-432: one iteration of the hop loop.
HopIteration ==
    /\ pc = "hop"
    /\ hopNum <= maxHops
    /\ scanned' = scanned + 1
    /\ horizon' \in Skies({Position(STAR_CATALOG[i].value) :
                              i \in {j \in 1..Len(STAR_CATALOG) :
                                        HopCandidateInReach(STAR_CATALOG[j])}})
    /\ IF BestNextHop(horizon').found
         THEN /\ hopSequence' =
                    Append(hopSequence,
                           HopRecord(hopNum, currentHopStar,
                                     BestNextHop(horizon').star))
              /\ currentHopStar' = BestNextHop(horizon').star
              /\ currentDistanceToTarget' = BestNextHop(horizon').dist
              /\ visitedStarIds' =
                    visitedStarIds \cup {BestNextHop(horizon').star.id}
              /\ IF ReachedTarget(currentDistanceToTarget')
                   THEN /\ Return(PathResult("Success", startStar,
                                             hopSequence', currentHopStar'))
                        /\ UNCHANGED hopNum
                 ELSE /\ hopNum' = hopNum + 1
                      /\ UNCHANGED <<pc, result>>
       ELSE /\ Return(PathResult("PathNotFound", startStar, hopSequence,
                                 currentHopStar))
            /\ UNCHANGED <<currentHopStar, currentDistanceToTarget,
                           visitedStarIds, hopNum, hopSequence>>
    /\ UNCHANGED <<catalogVars, serverVars,
                 targetEquatorial, targetAltAz, startStar>>

\* MaxHopsReached without the return of lines 436-445: execute() falls off
\* its end and returns undefined.
MaxHopsReached_NoReturn ==
    /\ pc = "hop"
    /\ hopNum > maxHops
    /\ pc' = "done"
    /\ UNCHANGED <<catalogVars, serverVars,
                 horizon, targetEquatorial, targetAltAz,
                   startStar, currentHopStar, currentDistanceToTarget,
                   visitedStarIds, hopNum, hopSequence, scanned, result>>

\* Lines 434-445: the loop ran out of iterations.
MaxHopsReached ==
    /\ pc = "hop"
    /\ hopNum > maxHops
    /\ Return(PathResult("PathNotFound", startStar, hopSequence,
                         currentHopStar))
    /\ UNCHANGED <<catalogVars, serverVars,
                 horizon, targetEquatorial, targetAltAz,
                   startStar, currentHopStar, currentDistanceToTarget,
                   visitedStarIds, hopNum, hopSequence, scanned>>

Next ==
    \/ ResolveTarget
    \/ CheckTargetVisible
    \/ SelectStartStar
    \/ CheckStartFOV
    \/ HopIteration
    \/ MaxHopsReached

Spec == Init /\ [][Next]_vars

(***************************************************************************)
(* Catalog ingestion.  A file is its name and its parsed rows; a row is a  *)
(* record of the text of each column (NoColumn: the header lacks it).      *)
(***************************************************************************)
\* Array.prototype.push in the place of Map.prototype.set: every write
\* adds an entry.
MapSet_Push(map, k, v) == Append(map, [key |-> k, value |-> v])

\* Map.prototype.set: a key already present keeps its place.
MapSet(map, k, v) ==
    IF MapHas(map, k)
      THEN [i \in 1..Len(map) |->
              IF map[i].key = k THEN [key |-> k, value |-> v] ELSE map[i]]
    ELSE Append(map, [key |-> k, value |-> v])

\* Number.prototype.toFixed(1) on the magnitudes below 6 of the model.
toFixed1(x) ==
    CASE x = 0 -> "0.0" [] x = 1 -> "1.0" [] x = 2 -> "2.0"
      [] x = 3 -> "3.0" [] x = 5 -> "5.0"

\* The on_record hook keeping every row that has any designation: a proper
\* name, a Bayer/Flamsteed designation, a Hipparcos or Henry Draper number.
OnRecordKeeps_AnyDesignation(record) ==
    \/ Truthy(record.proper) \/ Truthy(record.bf)
    \/ Truthy(record.hip) \/ Truthy(record.hd)
    \/ (record.mag # NoColumn /\ JsLess(parseFloat(record.mag), 6))

\* The on_record hook of lines 315-327: TRUE when the row is kept.
OnRecordKeeps(record) ==
    LET hasName == Truthy(record.proper) \/ Truthy(record.bf)
        isBright == /\ record.mag # NoColumn
                    /\ JsLess(parseFloat(record.mag), 6)
    IN hasName \/ isBright

\* Lines 336-352: the name of a HYG row, "" when it gets none.
HygName(record) ==
    IF Truthy(record.proper) /\ Truthy(trim(record.proper))
      THEN trim(record.proper)
    ELSE IF Truthy(record.bf) /\ Truthy(trim(record.bf))
      THEN trim(record.bf)
    ELSE IF Truthy(record.hip) /\ Truthy(trim(record.hip))
      THEN "HIP " \o trim(record.hip)
    ELSE IF Truthy(record.hd) /\ Truthy(trim(record.hd))
      THEN "HD " \o trim(record.hd)
    ELSE IF record.mag # NoColumn /\ JsLess(parseFloat(record.mag), 6)
      THEN "Star mag " \o toFixed1(parseFloat(record.mag))
              \o (IF Truthy(record.con) /\ Truthy(trim(record.con))
                    THEN " in " \o trim(record.con) ELSE "")
    ELSE ""

\* Lines 360-366: a coordinate column of a HYG row.
HygCoordinate(text) ==
    IF text # NoColumn /\ text # "" THEN parseFloat(text) ELSE Undefined

\* Lines 374-380 and 444-450: the magnitude of a star row.
StarMagnitude(text) ==
    IF text # NoColumn /\ trim(text) # "" /\ ~isNaN(parseFloat(text))
      THEN parseFloat(text)
    ELSE Undefined

\* `text.trim() || undefined` on a column that may be missing.
TrimOrUndefined(text) ==
    IF Truthy(text) /\ Truthy(trim(text)) THEN trim(text) ELSE NoColumn

\* The record a star loader stores (lines 382-389, 453-460, 464-471).
StoredRecord(name, raHours, decDegrees, magnitude, constellation) ==
    [name |-> name, rightAscension |-> raHours, declination |-> decDegrees,
     magnitude |-> magnitude, constellation |-> constellation]

\* Lines 334-391: one row of the HYG loop, applied to the star catalog.
LoadHygRow(catalog, record) ==
    LET name == HygName(record)
        raHours == HygCoordinate(record.ra)
        decDegrees == HygCoordinate(record.dec)
    IN IF name = "" THEN catalog
       ELSE IF \/ raHours = Undefined \/ decDegrees = Undefined
               \/ isNaN(raHours) \/ isNaN(decDegrees)
         THEN catalog
       ELSE MapSet(catalog, toLowerCase(name),
                   StoredRecord(name, raHours, decDegrees,
                                StarMagnitude(record.mag),
                                TrimOrUndefined(record.con)))

\* Lines 425-437 and 230-242: a coordinate of a generic row, from the
\* column in the catalog's unit or else from the other column.
GenericRa(record) ==
    IF record.ra_hours # NoColumn THEN parseFloat(record.ra_hours)
    ELSE IF record.RA # NoColumn THEN JsDiv(parseFloat(record.RA), 15)
    ELSE Undefined

GenericDec(record) ==
    IF record.dec_degrees # NoColumn THEN parseFloat(record.dec_degrees)
    ELSE IF record.Dec # NoColumn THEN parseFloat(record.Dec)
    ELSE Undefined

\* `a || b` on two string fields.
OrElse(a, b) == IF Truthy(a) THEN a ELSE IF b = NoColumn THEN "" ELSE b

\* Lines 416-473: one row of the generic star loop.
LoadGenericStarRow(catalog, record) ==
    LET name == OrElse(record.name, record.proper)
        altName == OrElse(record.alt_name, "")
        raHours == GenericRa(record)
        decDegrees == GenericDec(record)
        stored == StoredRecord(name, raHours, decDegrees,
                               StarMagnitude(record.mag),
                               TrimOrUndefined(record.con))
        primary == MapSet(catalog, toLowerCase(name), stored)
    IN IF \/ ~Truthy(name)
          \/ raHours = Undefined \/ decDegrees = Undefined
          \/ isNaN(raHours) \/ isNaN(decDegrees)
         THEN catalog
       ELSE IF Truthy(altName)
         THEN MapSet(primary, toLowerCase(altName), stored)
       ELSE primary

\* filePath.includes('hygdata_v').
IsHygFile(file) == file.name = "hygdata_v41.csv"

\* The loops of lines 334-391 and 416-473 over the rows of a file; the
\* HYG rows first pass the on_record hook.
RECURSIVE LoadStarRows(_, _, _)
LoadStarRows(catalog, rows, hyg) ==
    IF rows = <<>> THEN catalog
    ELSE LoadStarRows(IF hyg
                        THEN (IF OnRecordKeeps(rows[1])
                                THEN LoadHygRow(catalog, rows[1])
                              ELSE catalog)
                      ELSE LoadGenericStarRow(catalog, rows[1]),
                      Tail(rows), hyg)

\* loadStarCatalog: the star catalog after loading `file` into `catalog`.
loadStarCatalog(catalog, file) ==
    IF file = NoFile THEN catalog
    ELSE LoadStarRows(catalog, file.rows, IsHygFile(file))

(***************************************************************************)
(* The deep-sky loaders.  A sexagesimal text is kept as the sequence of    *)
(* its parts between colons; the empty text is the one empty part.         *)
(***************************************************************************)
\* Lines 93-106: the zero padding of NGC and IC names is removed.
StripLeadingZeros(name) ==
    CASE name = "NGC0224" -> "NGC224"
      [] name = "NGC0205" -> "NGC205"
      [] name = "IC0010" -> "IC10"
      [] name = "IC0002" -> "IC2"
      [] OTHER -> name

\* h + m/60 + s/3600 on three parsed parts, exactly, as a number of
\* 3600ths: seconds of arc for degrees, seconds of time for hours.
SexagesimalSeconds(h, m, s) ==
    JsAdd(JsAdd(JsTimes(h, 3600), JsTimes(m, 60)), s)

\* h + m/60 + s/3600 where it is whole, as the catalogs of the model
\* hold it.
Sexagesimal(h, m, s) == JsDiv(SexagesimalSeconds(h, m, s), 3600)

\* Lines 112-123: the right ascension of an OpenNGC row.
OpenNgcRa(parts) ==
    IF parts # <<"">> /\ Len(parts) = 3
      THEN LET hours == parseFloat(parts[1])
               minutes == parseFloat(parts[2])
               seconds == parseFloat(parts[3])
           IN IF ~isNaN(hours) /\ ~isNaN(minutes) /\ ~isNaN(seconds)
                THEN Sexagesimal(hours, minutes, seconds)
              ELSE Undefined
    ELSE Undefined

\* The texts a degrees part can carry after its sign.
UnsignedDegrees == {"00", "01", "89", "95", "Infinity", "abc"}

\* decStr.startsWith('-'), on the first part of the text.
StartsWithMinus(part) == \E d \in UnsignedDegrees : part = "-" \o d

\* decParts[0].replace(/^[+-]/, '').
StripSign(part) ==
    IF \E d \in UnsignedDegrees : part \in {"-" \o d, "+" \o d}
      THEN CHOOSE d \in UnsignedDegrees : part \in {"-" \o d, "+" \o d}
    ELSE part

\* Lines 126-149 with the sign taken from the number of degrees.
OpenNgcDecSeconds_SignOfDegrees(parts) ==
    IF parts # <<"">> /\ Len(parts) = 3
      THEN LET sign == IF JsLess(parseFloat(parts[1]), 0) THEN -1 ELSE 1
               degreesStr == StripSign(parts[1])
               degrees == parseFloat(degreesStr)
               minutes == parseFloat(parts[2])
               seconds == parseFloat(parts[3])
           IN IF /\ degreesStr # "" /\ parts[2] # "" /\ parts[3] # ""
                 /\ ~isNaN(degrees) /\ ~isNaN(minutes) /\ ~isNaN(seconds)
                THEN JsTimesSign(SexagesimalSeconds(degrees, minutes, seconds),
                                 sign)
              ELSE Undefined
    ELSE Undefined

\* Lines 126-149: the declination of an OpenNGC row, in seconds of arc.
OpenNgcDecSeconds(parts) ==
    IF parts # <<"">> /\ Len(parts) = 3
      THEN LET sign == IF StartsWithMinus(parts[1]) THEN -1 ELSE 1
               degreesStr == StripSign(parts[1])
               degrees == parseFloat(degreesStr)
               minutes == parseFloat(parts[2])
               seconds == parseFloat(parts[3])
           IN IF /\ degreesStr # "" /\ parts[2] # "" /\ parts[3] # ""
                 /\ ~isNaN(degrees) /\ ~isNaN(minutes) /\ ~isNaN(seconds)
                THEN JsTimesSign(SexagesimalSeconds(degrees, minutes, seconds),
                                 sign)
              ELSE Undefined
    ELSE Undefined

\* The declination of an OpenNGC row in degrees, for the rows of whole
\* degrees that the catalogs of the model hold.
OpenNgcDec(parts) ==
    LET seconds == OpenNgcDecSeconds(parts)
    IN IF seconds = Undefined THEN Undefined ELSE JsDiv(seconds, 3600)

\* Lines 153-167 and 249-269: the magnitude of a deep-sky row, from the
\* first column that is not blank.
RECURSIVE DsoMagnitude(_)
DsoMagnitude(columns) ==
    IF columns = <<>> THEN Undefined
    ELSE IF Truthy(columns[1]) /\ trim(columns[1]) # ""
      THEN (IF isNaN(parseFloat(columns[1])) THEN Undefined
            ELSE parseFloat(columns[1]))
    ELSE DsoMagnitude(Tail(columns))

\* parseInt(record.M, 10).toString().
MessierNumber(text) ==
    CASE text \in {"31", "031"} -> "31"
      [] text = "001" -> "1"
      [] text = "110" -> "110"
      [] OTHER -> "NaN"

\* An object literal evaluated while `dso` is the catalog: a new object,
\* told from every object the catalog holds by its number.
NewObject(dso) ==
    LET held == {dso[i].value.object : i \in 1..Len(dso)}
    IN IF held = {} THEN 1
       ELSE 1 + CHOOSE n \in held : \A other \in held : other <= n

\* The record a deep-sky loader stores (lines 169-177, 183-191, 271-278).
DsoRecord(name, ra, dec, magnitude, type, constellation, object) ==
    [name |-> name, rightAscension |-> ra, declination |-> dec,
     magnitude |-> magnitude, type |-> type, constellation |-> constellation,
     object |-> object]

\* The OpenNGC row loop storing one object under both keys.
LoadOpenNgcRow_SharedObject(maps, record) ==
    LET name == StripLeadingZeros(record.Name)
        raHours == OpenNgcRa(record.RA)
        decDegrees == OpenNgcDec(record.Dec)
        magnitude == DsoMagnitude(<<record.VMag, record.BMag>>)
        type == OrElse(record.Type, "")
        messierName == "M" \o MessierNumber(record.M)
        object == DsoRecord(name, raHours, decDegrees, magnitude, type,
                            TrimOrUndefined(record.Constellation),
                            NewObject(maps.dso))
        named == MapSet(maps.dso, toLowerCase(name), object)
        withMessier ==
            IF Truthy(record.M)
              THEN MapSet(named, toLowerCase(messierName), object)
            ELSE named
    IN IF Truthy(record.Name) /\ raHours # Undefined /\ decDegrees # Undefined
         THEN [dso |-> withMessier,
               aliases |->
                   IF Truthy(record.CommonNames)
                     THEN MapSet(maps.aliases,
                                 toLowerCase(record.CommonNames),
                                 toLowerCase(name))
                   ELSE maps.aliases]
       ELSE maps

\* Lines 88-199: one row of the OpenNGC loop, applied to the two maps.
LoadOpenNgcRow(maps, record) ==
    LET name == StripLeadingZeros(record.Name)
        raHours == OpenNgcRa(record.RA)
        decDegrees == OpenNgcDec(record.Dec)
        magnitude == DsoMagnitude(<<record.VMag, record.BMag>>)
        type == OrElse(record.Type, "")
        messierName == "M" \o MessierNumber(record.M)
        named == MapSet(maps.dso, toLowerCase(name),
                        DsoRecord(name, raHours, decDegrees, magnitude, type,
                                  TrimOrUndefined(record.Constellation),
                                  NewObject(maps.dso)))
        withMessier ==
            IF Truthy(record.M)
              THEN MapSet(named, toLowerCase(messierName),
                          DsoRecord(messierName, raHours, decDegrees,
                                    magnitude, type,
                                    TrimOrUndefined(record.Constellation),
                                    NewObject(named)))
            ELSE named
    IN IF Truthy(record.Name) /\ raHours # Undefined /\ decDegrees # Undefined
         THEN [dso |-> withMessier,
               aliases |->
                   IF Truthy(record.CommonNames)
                     THEN MapSet(maps.aliases,
                                 toLowerCase(record.CommonNames),
                                 toLowerCase(name))
                   ELSE maps.aliases]
       ELSE maps

\* The generic deep-sky loop with the alias registered before the checks of
\* the coordinates, for every row that has a name.
LoadGenericDsoRow_AliasOfSkippedRow(maps, record) ==
    LET name == OrElse(record.name, record.Name)
        commonName == OrElse(record.common_name, "")
        raHours == GenericRa(record)
        decDegrees == GenericDec(record)
        magnitude == DsoMagnitude(<<record.VMag, record.BMag, record.mag>>)
        aliases == IF Truthy(name) /\ Truthy(commonName)
                     THEN MapSet(maps.aliases, toLowerCase(commonName),
                                 toLowerCase(name))
                   ELSE maps.aliases
    IN IF \/ ~Truthy(name)
          \/ raHours = Undefined \/ decDegrees = Undefined
          \/ isNaN(raHours) \/ isNaN(decDegrees)
         THEN [dso |-> maps.dso, aliases |-> aliases]
       ELSE [dso |-> MapSet(maps.dso, toLowerCase(name),
                            DsoRecord(name, raHours, decDegrees, magnitude,
                                      OrElse(record.type, record.Type),
                                      NoColumn, NewObject(maps.dso))),
             aliases |-> aliases]

\* Lines 219-284: one row of the generic deep-sky loop.
LoadGenericDsoRow(maps, record) ==
    LET name == OrElse(record.name, record.Name)
        commonName == OrElse(record.common_name, "")
        raHours == GenericRa(record)
        decDegrees == GenericDec(record)
        magnitude == DsoMagnitude(<<record.VMag, record.BMag, record.mag>>)
    IN IF \/ ~Truthy(name)
          \/ raHours = Undefined \/ decDegrees = Undefined
          \/ isNaN(raHours) \/ isNaN(decDegrees)
         THEN maps
       ELSE [dso |-> MapSet(maps.dso, toLowerCase(name),
                            DsoRecord(name, raHours, decDegrees, magnitude,
                                      OrElse(record.type, record.Type),
                                      NoColumn, NewObject(maps.dso))),
             aliases |->
                 IF Truthy(commonName)
                   THEN MapSet(maps.aliases, toLowerCase(commonName),
                               toLowerCase(name))
                 ELSE maps.aliases]

\* filePath.endsWith('ngc.csv') || filePath.includes('NGC.csv').
IsOpenNgcFile(file) == file.name = "ngc.csv"

\* The loops of lines 75-200 and 219-284 over the rows of a file.
RECURSIVE LoadDsoRows(_, _, _)
LoadDsoRows(maps, rows, openNgc) ==
    IF rows = <<>> THEN maps
    ELSE LoadDsoRows(IF openNgc THEN LoadOpenNgcRow(maps, rows[1])
                     ELSE LoadGenericDsoRow(maps, rows[1]),
                     Tail(rows), openNgc)

\* loadDSOCatalog: DSO_CATALOG and COMMON_NAMES after loading `file`.
loadDSOCatalog(maps, file) ==
    IF file = NoFile THEN maps
    ELSE LoadDsoRows(maps, file.rows, IsOpenNgcFile(file))

(***************************************************************************)
(* The process: astronomy.ts is imported, index.ts runs, tools are served. *)
(***************************************************************************)
\* The most rows a catalog file of the model holds.
MaxRows == 2

\* The files of the given name with up to MaxRows rows out of `rows`.
Files(name, rows) ==
    {[name |-> name, rows |-> r] :
        r \in UNION {[1..n -> rows] : n \in 0..MaxRows}}

\* A row of stars.csv (lines 416-437): name, alt_name, ra_hours, and mag,
\* on the equator.
GenericStarRow(name, altName, raHours, mag) ==
    [name |-> name, proper |-> NoColumn, alt_name |-> altName,
     ra_hours |-> raHours, RA |-> NoColumn, dec_degrees |-> "0",
     Dec |-> NoColumn, mag |-> mag, con |-> NoColumn]

\* A row of ngc.csv (lines 88-167) on the equator, of V magnitude 3.
OpenNgcRow(name, messier, commonNames, raParts) ==
    [Name |-> name, RA |-> raParts, Dec |-> <<"+00", "00", "00">>,
     M |-> messier, CommonNames |-> commonNames, VMag |-> "3", BMag |-> "",
     Type |-> "G", Constellation |-> "And"]

\* Well-formed star rows: stars to hop along, and stars that bear the name
\* of a planet, of a deep-sky object, of an alias, of an inherited property.
ServerStarRows ==
    {GenericStarRow("Sirius", "", "3", "2"),
     GenericStarRow("Vega", "", "2", "2"),
     GenericStarRow("Vega", "", "2", "9")}
    \cup {GenericStarRow(n, "", "2", "2") :
            n \in {"M31", "Andromeda Galaxy", "Mars", "Constructor"}}
    \cup {GenericStarRow("Sirius", "Alpha CMa", "1", "2")}

\* Well-formed deep-sky rows: NGC 224 at 0 h with or without its Messier
\* number, IC 10 at 2 h, under common names that other levels know too.
ServerDsoRows ==
    {OpenNgcRow("NGC0224", "031", c, <<"00", "00", "00">>) :
        c \in {"", "Andromeda Galaxy", "M31", "Sirius", "Mars"}}
    \cup {OpenNgcRow("NGC0224", "", c, <<"00", "00", "00">>) :
            c \in {"", "M31"}}
    \cup {OpenNgcRow("IC0010", "", "Andromeda Galaxy", <<"02", "00", "00">>)}

SampleStarFiles ==
    {[name |-> "stars.csv", rows |-> r] :
        r \in {<<GenericStarRow("Sirius", "", "3", "2"),
                 GenericStarRow("Vega", "", "2", "2")>>,
               <<GenericStarRow("M31", "", "2", "2"),
                 GenericStarRow("Andromeda Galaxy", "", "2", "2")>>,
               <<GenericStarRow("Mars", "", "2", "2"),
                 GenericStarRow("Constructor", "", "2", "2")>>}}

SampleDsoFile ==
    [name |-> "ngc.csv",
     rows |-> <<OpenNgcRow("NGC0224", "031", "Andromeda Galaxy",
                           <<"00", "00", "00">>)>>]

\* What data/ may hold when the process starts: the first existing star
\* file and the first existing deep-sky file (lines 508-541), or none.
ServerDataDirs ==
    {[star |-> f, dso |-> SampleDsoFile] :
        f \in Files("stars.csv", ServerStarRows) \cup {NoFile}}
    \cup {[star |-> f, dso |-> g] :
            f \in SampleStarFiles,
            g \in Files("ngc.csv", ServerDsoRows) \cup {NoFile}}

\* Names a caller may ask the resolver for.
ResolverNames ==
    {"Mars", "M31", "Andromeda Galaxy", "Sirius", "SIRIUS", "NGC224",
     "Constructor", "Nowhere"}

\* Names a caller may ask the details of.
DetailsNames == {"Mars", "M31", "Constructor"}

\* Names a caller may ask an ephemeris stream of.
EphemerisNames == {"M31", "Nowhere"}

\* The parameters of the star-hopping requests made to the served process.
ServerParamSets ==
    {[targetObjectName |-> t, fovDegrees |-> 15,
      initialSearchRadiusDegrees |-> 45, maxHopMagnitude |-> 8,
      startStarMagnitudeThreshold |-> 3, maxHops |-> 1] :
        t \in {"M31", "Constructor"}}

\* No star-hopping request has been made.
NoParams ==
    [targetObjectName |-> "", fovDegrees |-> 0,
     initialSearchRadiusDegrees |-> 0, maxHopMagnitude |-> 0,
     startStarMagnitudeThreshold |-> 0, maxHops |-> Undefined]

\* initializeCatalogs (lines 484-547): the first existing file of each kind
\* is loaded into the maps as they are.
initializeCatalogs ==
    LET maps == loadDSOCatalog([dso |-> DSO_CATALOG,
                                aliases |-> COMMON_NAMES], dataDir.dso)
    IN /\ STAR_CATALOG' = loadStarCatalog(STAR_CATALOG, dataDir.star)
       /\ DSO_CATALOG' = maps.dso
       /\ COMMON_NAMES' = maps.aliases
       /\ ingestionRuns' = ingestionRuns + 1

pathfinderVars ==
    <<horizon, pc, targetEquatorial, targetAltAz, startStar, currentHopStar,
      currentDistanceToTarget, visitedStarIds, hopNum, hopSequence, scanned,
      result>>

ServerInit ==
    /\ dataDir \in ServerDataDirs
    /\ phase = "import"
    /\ ingestionRuns = 0
    /\ lookup = NoLookup
    /\ call = NoCall
    /\ STAR_CATALOG = <<>>
    /\ DSO_CATALOG = <<>>
    /\ COMMON_NAMES = <<>>
    /\ horizon = <<>>
    /\ params = NoParams
    /\ pc = "idle"
    /\ targetEquatorial = NoCoordinates
    /\ targetAltAz = NoAltAz
    /\ startStar = NoStar
    /\ currentHopStar = NoStar
    /\ currentDistanceToTarget = 0
    /\ visitedStarIds = {}
    /\ hopNum = 0
    /\ hopSequence = <<>>
    /\ scanned = 0
    /\ result = NoResult

\* Line 550: importing astronomy.ts runs initializeCatalogs.
ImportAstronomy ==
    /\ phase = "import"
    /\ initializeCatalogs
    /\ phase' = "startup"
    /\ UNCHANGED <<dataDir, lookup, call, params, pathfinderVars>>

\* Line 1089 of the entry point: `await initializeCatalogs()`.
AwaitInitializeCatalogs ==
    /\ phase = "startup"
    /\ initializeCatalogs
    /\ phase' = "start"
    /\ UNCHANGED <<dataDir, lookup, call, params, pathfinderVars>>

\* Lines 1090-1092: `new MCPServer()` and `server.start()`; from here on
\* the tools answer requests.
ServerStart ==
    /\ phase = "start"
    /\ phase' = "serving"
    /\ UNCHANGED <<catalogVars, dataDir, ingestionRuns, lookup, call,
                   pathfinderVars>>

\* A request handler starts only while no other handler runs: the
\* star-hopping execute() has not been entered, is suspended at its one
\* await (line 246 of the tool), or has returned.
BetweenTasks == phase = "serving" /\ pc \in {"idle", "visibility", "done"}

\* The handler's answer is what the caller receives.
Answer(request, name, outcome) ==
    lookup' = [request |-> request, name |-> name, outcome |-> outcome,
               during |-> pc]

\* ResolveRequest with a memo: the record found is also stored in the
\* star catalog under the name asked for.
ResolveRequest_Memo ==
    /\ BetweenTasks
    /\ \E name \in ResolverNames :
        \E outcome \in getEquatorialCoordinates(name) :
            /\ Answer("getEquatorialCoordinates", name, outcome)
            /\ STAR_CATALOG' =
                  IF outcome.threw
                    THEN STAR_CATALOG
                  ELSE MapSet(STAR_CATALOG, toLowerCase(name),
                              outcome.coords)
    /\ UNCHANGED <<DSO_CATALOG, COMMON_NAMES, params, dataDir, phase,
                   ingestionRuns, call, pathfinderVars>>

\* A request that has getEquatorialCoordinates resolve a name.
ResolveRequest ==
    /\ BetweenTasks
    /\ \E name \in ResolverNames :
        \E outcome \in getEquatorialCoordinates(name) :
            Answer("getEquatorialCoordinates", name, outcome)
    /\ UNCHANGED <<catalogVars, dataDir, phase, ingestionRuns, call,
                   pathfinderVars>>

\* getObjectDetails (lines 680-900): which object the rise and set times
\* are computed for.  A star or deep-sky object is looked up as star, then
\* deep-sky key, then alias; the times themselves are the library's.
getObjectDetails(objectName) ==
    LET normalizedName == toLowerCase(objectName)
        isSolarSystemObject == SolarSystemLookup(normalizedName)
        aliased ==
            /\ MapHas(COMMON_NAMES, normalizedName)
            /\ MapHas(DSO_CATALOG, MapGet(COMMON_NAMES, normalizedName))
        fixed(coords) == [kind |-> "fixed", coords |-> coords]
        null == [kind |-> "null", coords |-> NoCoordinates]
    IN IF ~isSolarSystemObject /\ MapHas(STAR_CATALOG, normalizedName)
         THEN fixed(MapGet(STAR_CATALOG, normalizedName))
       ELSE IF ~isSolarSystemObject /\ MapHas(DSO_CATALOG, normalizedName)
         THEN fixed(MapGet(DSO_CATALOG, normalizedName))
       ELSE IF ~isSolarSystemObject /\ aliased
         THEN fixed(MapGet(DSO_CATALOG, MapGet(COMMON_NAMES, normalizedName)))
       ELSE IF ~isSolarSystemObject \/ normalizedName = "constructor"
         THEN null
       ELSE [kind |-> "solar", coords |-> NoCoordinates]

\* CelestialDetailsTool.execute (ListCelestialObjectsTool.ts, 284-425):
\* the position is the resolver's, the visibility the sky's, the times
\* getObjectDetails'.
CelestialDetails(objectName) ==
    UNION {
        IF outcome.threw
          THEN {[threw |-> TRUE,
                 message |-> "Failed to get celestial details: "
                             \o "Could not find object: " \o objectName
                             \o ". " \o outcome.message,
                 coords |-> NoCoordinates, aboveHorizon |-> FALSE,
                 details |-> "null", riseSetOf |-> NoCoordinates]}
        ELSE {[threw |-> FALSE, message |-> "", coords |-> outcome.coords,
               aboveHorizon |-> altitude > 0,
               details |-> getObjectDetails(objectName).kind,
               riseSetOf |-> getObjectDetails(objectName).coords] :
                 altitude \in Altitudes} :
        outcome \in getEquatorialCoordinates(objectName)}

\* A getCelestialDetails request.
DetailsRequest ==
    /\ BetweenTasks
    /\ \E name \in DetailsNames :
        \E outcome \in CelestialDetails(name) :
            Answer("getCelestialDetails", name, outcome)
    /\ UNCHANGED <<catalogVars, dataDir, phase, ingestionRuns, call,
                   pathfinderVars>>

\* name.charAt(0).toUpperCase() + name.slice(1) on the keys of the model.
Capitalize(name) ==
    CASE name = "sirius" -> "Sirius" [] name = "vega" -> "Vega"
      [] name = "m31" -> "M31" [] name = "mars" -> "Mars"
      [] name = "andromeda galaxy" -> "Andromeda galaxy"
      [] name = "constructor" -> "Constructor"
      [] name = "alpha cma" -> "Alpha cma"
      [] name = "ngc224" -> "Ngc224" [] name = "ic10" -> "Ic10"
      [] name = "ngc205" -> "Ngc205" [] name = "ngc1952" -> "Ngc1952"
      [] name = "ic2" -> "Ic2" [] name = "m1" -> "M1"
      [] name = "m110" -> "M110" [] name = "mnan" -> "Mnan"
      [] name = "hyades" -> "Hyades" [] name = "pleiades" -> "Pleiades"

\* The capitalized keys in the order of their UTF-16 code units, which is
\* the order Array.prototype.sort() puts them in.
CodeUnitOrder ==
    <<"Alpha cma", "Andromeda galaxy", "Constructor", "Hyades", "Ic10",
      "Ic2", "M1", "M110", "M31", "Mars", "Mnan", "Ngc1952", "Ngc205",
      "Ngc224", "Pleiades", "Sirius", "Vega">>

\* Array.from(new Set(names)).sort().
SortedNames(names) ==
    LET Among(name) == name \in names IN SelectSeq(CodeUnitOrder, Among)

\* The keys of the deep-sky catalog that match the pattern of a group:
\* /^m\d+$/i, /^ic\d+$/i, /^ngc\d+$/i, or none of them.
DsoGroup(key) ==
    CASE key \in {"m1", "m31", "m110"} -> "Messier Objects"
      [] key \in {"ic2", "ic10"} -> "IC Objects"
      [] key \in {"ngc205", "ngc224", "ngc1952"} -> "NGC Objects"
      [] OTHER -> "Other Deep Sky Objects"

\* The formatted keys of one group, in insertion order (lines 980-992).
GroupKeys(group) ==
    LET InGroup(entry) == DsoGroup(entry.key) = group
        entries == SelectSeq(DSO_CATALOG, InGroup)
    IN [i \in 1..Len(entries) |-> Capitalize(entries[i].key)]

\* parseInt(name.substring(k)) on the formatted key of a numbered group,
\* k being the length of the group's prefix.
CatalogNumber(name) ==
    CASE name = "M1" -> 1 [] name = "M31" -> 31 [] name = "M110" -> 110
      [] name = "Ic2" -> 2 [] name = "Ic10" -> 10
      [] name = "Ngc205" -> 205 [] name = "Ngc224" -> 224
      [] name = "Ngc1952" -> 1952

\* names.sort() of a numbered group, in the order of the code units.
SortByNumber_CodeUnits(names) ==
    LET Among(name) == \E i \in 1..Len(names) : names[i] = name
    IN SelectSeq(CodeUnitOrder, Among)

\* Array.prototype.sort with the comparator numA - numB (a stable sort).
RECURSIVE SortByNumber(_)
SortByNumber(names) ==
    IF names = <<>> THEN <<>>
    ELSE LET last == names[Len(names)]
             sorted == SortByNumber(SubSeq(names, 1, Len(names) - 1))
             NotAfter(name) == CatalogNumber(name) <= CatalogNumber(last)
             After(name) == CatalogNumber(name) > CatalogNumber(last)
         IN SelectSeq(sorted, NotAfter) \o <<last>> \o SelectSeq(sorted, After)

\* Object.keys(SOLAR_SYSTEM_OBJECTS), capitalized (lines 952-954).
SolarSystemNames ==
    <<"Sun", "Moon", "Mercury", "Venus", "Earth", "Mars", "Jupiter",
      "Saturn", "Uranus", "Neptune", "Pluto">>

\* listCelestialObjects (lines 946-1036).
listCelestialObjects(category) ==
    LET group(name, objects) == [category |-> name, objects |-> objects]
        when(cond, name, objects) ==
            IF cond THEN <<group(name, objects)>> ELSE <<>>
        dso(for, name) ==
            when(category \in {"all", "dso", for} /\ GroupKeys(name) # <<>>,
                 name, SortByNumber(GroupKeys(name)))
    IN when(category \in {"all", "planets"}, "Solar System Objects",
            SolarSystemNames)
       \o when(category \in {"all", "stars"}, "Stars",
               SortedNames({Capitalize(k) : k \in MapKeys(STAR_CATALOG)}))
       \o dso("messier", "Messier Objects")
       \o dso("ic", "IC Objects")
       \o dso("ngc", "NGC Objects")
       \o when(category \in {"all", "dso"}
                 /\ GroupKeys("Other Deep Sky Objects") # <<>>,
               "Other Deep Sky Objects",
               SortedNames({GroupKeys("Other Deep Sky Objects")[i] :
                   i \in 1..Len(GroupKeys("Other Deep Sky Objects"))}))

\* Categories a caller may ask the list for.
ListCategories == {"all", "messier"}

\* A request for the list of objects.
ListRequest ==
    /\ BetweenTasks
    /\ \E category \in ListCategories :
        Answer("listCelestialObjects", category,
               listCelestialObjects(category))
    /\ UNCHANGED <<catalogVars, dataDir, phase, ingestionRuns, call,
                   pathfinderVars>>

\* EphemerisStreamTool.execute (lines 66-119) for one object and one time
\* step: the frames it returns.  An object the resolver does not know and
\* an object below minAltitude (default 0) give no frame.
EphemerisFrames(name) ==
    UNION {
        IF outcome.threw
          THEN {<<>>}
        ELSE {IF altitude < 0
                THEN <<>>
              ELSE <<[object |-> name, aboveHorizon |-> altitude > 0,
                      apparentMagnitude |-> outcome.coords.magnitude]>> :
                altitude \in Altitudes} :
        outcome \in getEquatorialCoordinates(name)}

\* A request for an ephemeris stream.
EphemerisRequest ==
    /\ BetweenTasks
    /\ \E name \in EphemerisNames :
        \E frames \in EphemerisFrames(name) :
            Answer("ephemerisStream", name, frames)
    /\ UNCHANGED <<catalogVars, dataDir, phase, ingestionRuns, call,
                   pathfinderVars>>

\* A getStarHoppingPath request arrives: execute() is entered.
StarHoppingRequest ==
    /\ phase = "serving"
    /\ pc = "idle"
    /\ \E p \in ServerParamSets : params' = p
    /\ pc' = "resolve"
    /\ UNCHANGED <<STAR_CATALOG, DSO_CATALOG, COMMON_NAMES, serverVars,
                   horizon, targetEquatorial, targetAltAz, startStar,
                   currentHopStar, currentDistanceToTarget, visitedStarIds,
                   hopNum, hopSequence, scanned, result>>

ServerNext ==
    \/ ImportAstronomy
    \/ AwaitInitializeCatalogs
    \/ ServerStart
    \/ ResolveRequest
    \/ DetailsRequest
    \/ ListRequest
    \/ EphemerisRequest
    \/ StarHoppingRequest
    \/ ResolveTarget
    \/ CheckTargetVisible
    \/ SelectStartStar
    \/ CheckStartFOV
    \/ HopIteration
    \/ MaxHopsReached

ServerSpec == ServerInit /\ [][ServerNext]_vars

(***************************************************************************)
(* Ingestion on its own: the process from import to the start of the       *)
(* server, over catalog files with rows of every kind.                     *)
(***************************************************************************)
\* A row of hygdata_v41.csv (lines 315-380).
HygRow(proper, bf, hip, hd, ra, dec, mag, con) ==
    [proper |-> proper, bf |-> bf, hip |-> hip, hd |-> hd, ra |-> ra,
     dec |-> dec, mag |-> mag, con |-> con]

\* HYG rows at one good position with every combination of names: a proper
\* name, a Bayer/Flamsteed designation (either may be blank), a Hipparcos
\* or a Henry Draper number, and a magnitude below 6.0, of 6.0, or none.
HygNamingRows ==
    {HygRow(n[1], n[2], c[1], c[2], "1", "0", mag, "") :
        n \in {<<"Sirius", "">>, <<"", "9Alp CMa">>, <<"", "">>,
               <<"  ", "">>, <<"", "  ">>, <<"  ", "9Alp CMa">>},
        c \in {<<"", "">>, <<"32349", "">>, <<"", "48915">>},
        mag \in {"", "5", "6"}}
    \cup {HygRow("", "", "", "", "1", "0", "5", "CMa"),
          HygRow("", "", "32349", "", "1", "0", NoColumn, ""),
          HygRow(" Sirius ", "", "32349", "", "1", "0", "6", "")}

\* HYG rows of one bright named star with every kind of coordinate text.
HygCoordinateRows ==
    {HygRow("Sirius", "", "", "", ra, dec, "5", "") :
        ra \in {"", "abc", "1", "Infinity", NoColumn},
        dec \in {"", "abc", "0", "95", "-95", "-Infinity"}}

\* A row of a generic star file (lines 416-450).
StarRow(name, proper, altName, ra, dec, mag) ==
    [name |-> name, proper |-> proper, alt_name |-> altName,
     ra_hours |-> ra[1], RA |-> ra[2], dec_degrees |-> dec[1],
     Dec |-> dec[2], mag |-> mag, con |-> NoColumn]

\* Generic star rows: the name columns at a good position, and every kind
\* of coordinate column for one star with an alternative name.
GenericStarRows ==
    {StarRow(n[1], n[2], n[3], <<"1", NoColumn>>, <<"0", NoColumn>>, "2") :
        n \in {<<"Sirius", NoColumn, "">>, <<"", "Vega", "">>,
               <<"", NoColumn, "">>, <<"", NoColumn, "Alpha CMa">>}}
    \cup {StarRow("Sirius", NoColumn, "Alpha CMa", ra, dec, "") :
            ra \in {<<"1", NoColumn>>, <<NoColumn, "15">>,
                    <<NoColumn, NoColumn>>, <<"abc", NoColumn>>,
                    <<NoColumn, "abc">>, <<"", NoColumn>>},
            dec \in {<<"0", NoColumn>>, <<NoColumn, "-95">>,
                     <<"95", NoColumn>>, <<NoColumn, NoColumn>>,
                     <<"abc", NoColumn>>}}

\* A row of ngc.csv (lines 88-167).
NgcRow(name, ra, dec, messier, commonNames, vMag, bMag) ==
    [Name |-> name, RA |-> ra, Dec |-> dec, M |-> messier,
     CommonNames |-> commonNames, VMag |-> vMag, BMag |-> bMag,
     Type |-> "G", Constellation |-> "And"]

\* OpenNGC rows: every kind of sexagesimal text for NGC 224, then every
\* combination of name, Messier number and common name, and of magnitudes,
\* at a good position.
OpenNgcRows ==
    {NgcRow("NGC0224", ra, dec, "031", "Andromeda Galaxy", "3", "") :
        ra \in {<<"00", "00", "00">>, <<"01", "00", "00">>, <<"">>,
                <<"abc", "00", "00">>, <<"01", "00">>,
                <<"Infinity", "00", "00">>,
                <<"Infinity", "-Infinity", "00">>},
        dec \in {<<"+00", "00", "00">>, <<"-00", "00", "00">>,
                 <<"95", "00", "00">>, <<"-95", "00", "00">>, <<"">>,
                 <<"+00", "", "00">>, <<"Infinity", "-Infinity", "00">>}}
    \cup {NgcRow(name, <<"01", "00", "00">>, <<"+00", "00", "00">>, m, c,
                 "3", "") :
            name \in {"NGC0224", "IC0010", ""}, m \in {"", "031", "abc"},
            c \in {"", "Andromeda Galaxy"}}
    \cup {NgcRow("NGC0224", <<"01", "00", "00">>, <<"+00", "00", "00">>, "",
                 "", mags[1], mags[2]) :
            mags \in {<<"", "5">>, <<"", "">>, <<"abc", "5">>}}
    \cup {[NgcRow("NGC0224", <<"01", "00", "00">>, <<"-00", "00", "00">>,
                  "31", "", "", "5") EXCEPT !.Type = type] :
            type \in {"", "OCl", NoColumn}}

\* A row of a generic deep-sky file (lines 219-269).
DsoRow(name, otherName, commonName, ra, dec, mag) ==
    [name |-> name, Name |-> otherName, common_name |-> commonName,
     ra_hours |-> ra[1], RA |-> ra[2], dec_degrees |-> dec[1],
     Dec |-> dec[2], VMag |-> NoColumn, BMag |-> NoColumn, mag |-> mag,
     type |-> "G", Type |-> NoColumn]

GenericDsoRows ==
    {DsoRow(n[1], n[2], c, <<"1", NoColumn>>, <<"0", NoColumn>>, "3") :
        n \in {<<"M31", NoColumn>>, <<"", "NGC224">>, <<"", NoColumn>>},
        c \in {"", "Andromeda Galaxy"}}
    \cup {DsoRow("M31", NoColumn, "Andromeda Galaxy", ra, dec, "") :
            ra \in {<<"1", NoColumn>>, <<NoColumn, "15">>,
                    <<NoColumn, NoColumn>>, <<"abc", NoColumn>>},
            dec \in {<<"0", NoColumn>>, <<NoColumn, "-95">>,
                     <<"95", NoColumn>>, <<"abc", NoColumn>>}}

\* What data/ may hold: a star file of either format next to the sample
\* deep-sky file, or a deep-sky file of either format and no star file.
IngestionDataDirs ==
    {[star |-> f, dso |-> SampleDsoFile] :
        f \in Files("hygdata_v41.csv", HygNamingRows \cup HygCoordinateRows)
              \cup Files("stars.csv", GenericStarRows)}
    \cup {[star |-> NoFile, dso |-> g] :
            g \in Files("ngc.csv", OpenNgcRows)
                  \cup Files("messier.csv", GenericDsoRows)}

IngestionInit ==
    /\ dataDir \in IngestionDataDirs
    /\ phase = "import"
    /\ ingestionRuns = 0
    /\ lookup = NoLookup
    /\ call = NoCall
    /\ STAR_CATALOG = <<>>
    /\ DSO_CATALOG = <<>>
    /\ COMMON_NAMES = <<>>
    /\ horizon = <<>>
    /\ params = NoParams
    /\ pc = "idle"
    /\ targetEquatorial = NoCoordinates
    /\ targetAltAz = NoAltAz
    /\ startStar = NoStar
    /\ currentHopStar = NoStar
    /\ currentDistanceToTarget = 0
    /\ visitedStarIds = {}
    /\ hopNum = 0
    /\ hopSequence = <<>>
    /\ scanned = 0
    /\ result = NoResult

IngestionNext ==
    \/ ImportAstronomy
    \/ AwaitInitializeCatalogs
    \/ ServerStart

IngestionSpec == IngestionInit /\ [][IngestionNext]_vars

(***************************************************************************)
(* The functions of the catalog store and the listing tool called on their *)
(* own, over inputs of every kind, in a process that serves.               *)
(***************************************************************************)
\* The value of `call` after `operation` was applied to `input`.  The
\* functions keep no state of their own, so one call is followed from
\* each state of the catalogs.
Called(operation, input, output) ==
    /\ call = NoCall
    /\ call' = [operation |-> operation, input |-> input, output |-> output]

\* Declination texts as ngc.csv writes them, split at the colons: sDD:MM:SS
\* with every sign, and texts that are not of that form.
DeclinationTexts ==
    {<<sign \o dd, mm, ss>> :
        sign \in {"", "+", "-"}, dd \in {"00", "01", "89"},
        mm \in {"00", "30", "59"}, ss \in {"00", "30", "59"}}
    \cup {<<"">>, <<"-00", "30">>, <<"-00", "", "00">>, <<"-abc", "30", "00">>,
          <<"-", "30", "00">>}

\* Star files for the listing: two stars, one under an alternative name
\* too, with or without magnitude and constellation.
ListingStarFiles ==
    {[name |-> "stars.csv",
      rows |-> <<[GenericStarRow("Vega", "", "2", "9") EXCEPT !.con = con],
                 [GenericStarRow("Sirius", "Alpha CMa", "1", mag)
                    EXCEPT !.con = "CMa"]>>] :
        con \in {NoColumn, "CMa"}, mag \in {"2", ""}}

\* The rows of ngc.csv for the listing: three Messier objects, two IC
\* objects, and a row whose M column is no number.
ListingNgcRows ==
    <<[NgcRow("NGC0224", <<"00", "00", "00">>, <<"+00", "00", "00">>,
              "031", "Andromeda Galaxy", "3", "")
         EXCEPT !.Constellation = "And"],
      [NgcRow("NGC1952", <<"01", "00", "00">>, <<"+00", "00", "00">>,
              "001", "", "9", "")
         EXCEPT !.Constellation = "Tau"],
      [NgcRow("IC0010", <<"02", "00", "00">>, <<"+00", "00", "00">>,
              "", "", "", "")
         EXCEPT !.Constellation = "  "],
      [NgcRow("NGC0205", <<"03", "00", "00">>, <<"+00", "00", "00">>,
              "110", "", "", "5")
         EXCEPT !.Constellation = "And"],
      [NgcRow("IC0002", <<"01", "00", "00">>, <<"+00", "00", "00">>,
              "abc", "", "2", "")
         EXCEPT !.Constellation = "And"]>>

\* The rows of a generic deep-sky file for the listing: two Messier
\* objects and two objects outside the numbered catalogs.
ListingDsoRows ==
    <<DsoRow("Pleiades", NoColumn, "", <<"1", NoColumn>>, <<"0", NoColumn>>,
             "2"),
      DsoRow("M31", NoColumn, "", <<"1", NoColumn>>, <<"0", NoColumn>>, "3"),
      DsoRow("Hyades", NoColumn, "", <<"2", NoColumn>>, <<"0", NoColumn>>,
             ""),
      DsoRow("M1", NoColumn, "", <<"3", NoColumn>>, <<"0", NoColumn>>, "9")>>

\* A sequence back to front.
Reverse(seq) == [i \in 1..Len(seq) |-> seq[Len(seq) + 1 - i]]

\* Deep-sky files for the listing, rows in either order, or none.
ListingDsoFiles ==
    {[name |-> "ngc.csv", rows |-> ListingNgcRows],
     [name |-> "ngc.csv", rows |-> Reverse(ListingNgcRows)],
     [name |-> "messier.csv", rows |-> ListingDsoRows],
     NoFile}

ListingDataDirs ==
    {[star |-> f, dso |-> g] : f \in ListingStarFiles, g \in ListingDsoFiles}

\* The maps after RunsBeforeServing runs of initializeCatalogs over `dir`.
RECURSIVE Ingested(_, _)
Ingested(dir, runs) ==
    IF runs = 0
      THEN [stars |-> <<>>, dso |-> <<>>, aliases |-> <<>>]
    ELSE LET before == Ingested(dir, runs - 1)
             maps == loadDSOCatalog([dso |-> before.dso,
                                     aliases |-> before.aliases], dir.dso)
         IN [stars |-> loadStarCatalog(before.stars, dir.star),
             dso |-> maps.dso, aliases |-> maps.aliases]

\* The parameters of a listCelestialObjects request; Undefined and
\* NoColumn stand for a parameter left out.
ListingParams ==
    [category : {NoColumn, "all", "dso", "messier", "ic", "ngc", "stars",
                 "planets", "comets"},
     limit : {Undefined, 1, 2},
     offset : {Undefined, 0, 1, 3},
     minMagnitude : {Undefined, 5},
     constellation : {NoColumn, "And"}]

\* items.slice(start, end).
Slice(items, start, end) ==
    IF start >= Len(items) \/ end <= start THEN <<>>
    ELSE SubSeq(items, start + 1, IF end < Len(items) THEN end ELSE Len(items))

\* Lines 44-45: the limit and the offset the request is served with.
Limit(p) == IF p.limit # Undefined /\ p.limit > 0 THEN p.limit ELSE Undefined

Offset(p) == IF p.offset # Undefined /\ p.offset >= 0 THEN p.offset ELSE 0

\* Lines 49-53: paginate.
paginate(items, p) ==
    IF Limit(p) = Undefined THEN items
    ELSE Slice(items, Offset(p), Offset(p) + Limit(p))

\* The minMagnitude and constellation tests of lines 60-65 and 82-83:
\* TRUE when the record is listed.
PassesFilters(coords, p) ==
    /\ p.minMagnitude # Undefined =>
          (coords.magnitude # Undefined /\ coords.magnitude <= p.minMagnitude)
    /\ Truthy(p.constellation) =>
          /\ Truthy(coords.constellation)
          /\ toLowerCase(coords.constellation)
                = toLowerCase(trim(p.constellation))

\* Lines 57-75: buildStars, the listed names before pagination.
buildStars(p) ==
    SortedNames({Capitalize(toLowerCase(STAR_CATALOG[i].value.name)) :
                    i \in {k \in 1..Len(STAR_CATALOG) :
                              PassesFilters(STAR_CATALOG[k].value, p)}})

\* The formatted keys of the listed records of one group, in insertion
\* order (lines 79-96, 105-112).
ListedKeys(group, p) ==
    LET Listed(entry) ==
            DsoGroup(entry.key) = group /\ PassesFilters(entry.value, p)
        entries == SelectSeq(DSO_CATALOG, Listed)
    IN [i \in 1..Len(entries) |-> Capitalize(entries[i].key)]

\* Lines 77-103: buildDsoByPrefix, the listed names before pagination.
buildDsoByPrefix(group, p) == SortByNumber(ListedKeys(group, p))

\* Lines 105-116: buildOtherDso, the listed names before pagination.
buildOtherDso(p) ==
    LET keys == ListedKeys("Other Deep Sky Objects", p)
    IN SortedNames({keys[i] : i \in 1..Len(keys)})

\* The names of one category before pagination.
CategoryNames(category, p) ==
    CASE category = "Stars" -> buildStars(p)
      [] category = "Other Deep Sky Objects" -> buildOtherDso(p)
      [] category = "Solar System Objects" -> SolarSystemNames
      [] OTHER -> buildDsoByPrefix(category, p)

\* The category of listCelestialObjects() a requested category finds
\* (lines 153-160).
TargetCategory ==
    [planets |-> "Solar System Objects", stars |-> "Stars",
     messier |-> "Messier Objects", ic |-> "IC Objects",
     ngc |-> "NGC Objects"]

\* ListCelestialObjectsTool.execute (lines 41-228): the categories of the
\* answer with the names of their page, or no category at all with the
\* message that nothing was found.
ListCelestialObjectsTool(p) ==
    LET all == listCelestialObjects("all")
        page(label, category) ==
            [category |-> label,
             objects |-> paginate(CategoryNames(category, p), p)]
        requested == IF Truthy(p.category) THEN toLowerCase(p.category)
                     ELSE "all"
    IN IF requested = "all"
         THEN [i \in 1..Len(all) |-> page(all[i].category, all[i].category)]
       ELSE IF requested = "dso"
         THEN <<page("Messier Objects", "Messier Objects"),
                page("IC Objects", "IC Objects"),
                page("NGC Objects", "NGC Objects"),
                page("Other Deep Sky Objects", "Other Deep Sky Objects")>>
       ELSE IF /\ requested \in DOMAIN TargetCategory
               /\ \E i \in 1..Len(all) :
                     all[i].category = TargetCategory[requested]
         THEN <<page(p.category, TargetCategory[requested])>>
       ELSE <<>>

\* A listCelestialObjects request is answered.
ListObjects ==
    /\ call = NoCall
    /\ \E p \in ListingParams :
          Called("listCelestialObjects", p, ListCelestialObjectsTool(p))
    /\ UNCHANGED <<catalogVars, dataDir, phase, ingestionRuns, lookup,
                   pathfinderVars>>

\* The declination of a row of ngc.csv is parsed (lines 126-149).
ParseDeclination ==
    /\ call = NoCall
    /\ \E parts \in DeclinationTexts :
          Called("parseDeclination", parts, OpenNgcDecSeconds(parts))
    /\ UNCHANGED <<catalogVars, dataDir, phase, ingestionRuns, lookup,
                   pathfinderVars>>

\* Math.atan2(y, x) * (180 / Math.PI) of lines 1071-1073, in thousandths
\* of a degree.  As the two positions vary it takes every value from -180
\* to 180 degrees; the model takes the values at and around each multiple
\* of 11.25 degrees: the compass points and the midpoints between them.
PositionAngles ==
    {a \in {k * 11250 + d :
               k \in -16..16,
               d \in {-30, -23, -22, -10, -1, 0, 1, 10, 22, 23, 30}} :
        -180000 <= a /\ a <= 180000}

\* Line 1076.
directions ==
    <<"N", "NNE", "NE", "ENE", "E", "ESE", "SE", "SSE", "S", "SSW", "SW",
      "WSW", "W", "WNW", "NW", "NNW">>

\* Math.round(angleDegrees / 22.5 + 0.001), the angle in thousandths of a
\* degree: the whole number nearest to (angle + 22.5) / 22500, halves up.
RoundedSteps(angleDegrees) == (2 * angleDegrees + 45 + 22500) \div 45000

\* parseFloat(angleDegrees.toFixed(1)), in tenths of a degree: the nearest
\* tenth, halves up.
ToFixed1(angleDegrees) == (angleDegrees + 50) \div 100

\* calculateBearing with the index taken without the modulo.
calculateBearing_NoModulo(positionAngle) ==
    LET angleDegrees == IF positionAngle < 0 THEN positionAngle + 360000
                        ELSE positionAngle
        index == RoundedSteps(angleDegrees)
    IN [degrees |-> ToFixed1(angleDegrees),
        cardinal |-> IF index + 1 \in DOMAIN directions
                       THEN directions[index + 1] ELSE NoColumn]

\* calculateBearing (lines 1060-1083) from the position angle on: the
\* degrees it returns are in tenths of a degree.
calculateBearing(positionAngle) ==
    LET angleDegrees == IF positionAngle < 0 THEN positionAngle + 360000
                        ELSE positionAngle
        index == RoundedSteps(angleDegrees) % 16
    IN [degrees |-> ToFixed1(angleDegrees),
        cardinal |-> IF index + 1 \in DOMAIN directions
                       THEN directions[index + 1] ELSE NoColumn]

\* Positions for the separation: on the equator, at 45 degrees north and
\* south, and at the poles, at right ascensions 15 and 180 degrees apart.
SeparationPositions ==
    {BareCoordinates(ra, dec) :
        ra \in {0, 1, 12, 13}, dec \in {-90, -45, 0, 45, 90}}

\* The pairs of positions whose separation is a whole number of degrees.
WholeDegreesApart(coords1, coords2) ==
    LET dRa == FoldDegrees(Abs(coords1.rightAscension * 15
                               - coords2.rightAscension * 15))
    IN \/ coords1.declination = 0 /\ coords2.declination = 0
       \/ dRa \in {0, 180}
       \/ Abs(coords1.declination) = 90 \/ Abs(coords2.declination) = 90

\* How far the floating point sum of line 1049 can be off, in units in the
\* last place.
RoundingExcess == {-1, 0, 1}

\* The separation of two positions is computed.
CalculateAngularSeparation ==
    /\ call = NoCall
    /\ \E coords1 \in SeparationPositions, coords2 \in SeparationPositions,
          excess \in RoundingExcess :
          /\ WholeDegreesApart(coords1, coords2)
          /\ Called("calculateAngularSeparation",
                    <<coords1, coords2, excess>>,
                    AngularSeparation(coords1, coords2, excess))
    /\ UNCHANGED <<catalogVars, dataDir, phase, ingestionRuns, lookup,
                   pathfinderVars>>

\* The bearing from one position to another is computed.
CalculateBearing ==
    /\ call = NoCall
    /\ \E positionAngle \in PositionAngles :
          Called("calculateBearing", positionAngle,
                 calculateBearing(positionAngle))
    /\ UNCHANGED <<catalogVars, dataDir, phase, ingestionRuns, lookup,
                   pathfinderVars>>

UtilityInit ==
    /\ dataDir \in ListingDataDirs
    /\ phase = "serving"
    /\ ingestionRuns = RunsBeforeServing
    /\ lookup = NoLookup
    /\ call = NoCall
    /\ STAR_CATALOG = Ingested(dataDir, RunsBeforeServing).stars
    /\ DSO_CATALOG = Ingested(dataDir, RunsBeforeServing).dso
    /\ COMMON_NAMES = Ingested(dataDir, RunsBeforeServing).aliases
    /\ horizon = <<>>
    /\ params = NoParams
    /\ pc = "idle"
    /\ targetEquatorial = NoCoordinates
    /\ targetAltAz = NoAltAz
    /\ startStar = NoStar
    /\ currentHopStar = NoStar
    /\ currentDistanceToTarget = 0
    /\ visitedStarIds = {}
    /\ hopNum = 0
    /\ hopSequence = <<>>
    /\ scanned = 0
    /\ result = NoResult

UtilityNext ==
    \/ ParseDeclination
    \/ ListObjects
    \/ CalculateBearing
    \/ CalculateAngularSeparation

UtilitySpec == UtilityInit /\ [][UtilityNext]_vars

(***************************************************************************)
(* Properties of the pathfinder.                                           *)
(***************************************************************************)
StarEntries == 1..Len(STAR_CATALOG)

\* The altitude of a position is known and above the horizon.
AboveHorizon(coords) ==
    /\ Position(coords) \in DOMAIN horizon
    /\ horizon[Position(coords)] > 0

DistanceToTarget(coords) ==
    calculateAngularSeparation(coords, targetEquatorial)

Finished == pc = "done"

\* C1: each hop recorded in hopSequence, in the loop and in the result,
\* joins two stars whose angular separation is at most fovDegrees.
C1_HopsWithinFov ==
    /\ \A i \in 1..Len(hopSequence) :
          calculateAngularSeparation(hopSequence[i].fromStar,
                                     hopSequence[i].toStar)
              <= params.fovDegrees
    /\ \A i \in 1..Len(result.hopSequence) :
          calculateAngularSeparation(result.hopSequence[i].fromStar,
                                     result.hopSequence[i].toStar)
              <= params.fovDegrees

\* A returned path of two hops, while a catalog star nearer to the target
\* than the first hop's star lay outside the field of the start star.
C1_Witness ==
    /\ Finished
    /\ Len(result.hopSequence) = 2
    /\ \E i \in StarEntries :
          /\ DistanceToTarget(STAR_CATALOG[i].value)
                < DistanceToTarget(result.hopSequence[1].toStar)
          /\ calculateAngularSeparation(result.hopSequence[1].fromStar,
                                        STAR_CATALOG[i].value)
                > params.fovDegrees

\* C2: along the hop sequence the distance to the target strictly
\* decreases: every hop ends strictly nearer to the target than it starts.
C2_StrictlyCloser ==
    /\ \A i \in 1..Len(hopSequence) :
          DistanceToTarget(hopSequence[i].toStar)
              < DistanceToTarget(hopSequence[i].fromStar)
    /\ \A i \in 1..Len(result.hopSequence) :
          DistanceToTarget(result.hopSequence[i].toStar)
              < DistanceToTarget(result.hopSequence[i].fromStar)

\* A hop was made although another star, never visited, passed every test
\* but the distance one: it is exactly as far from the target as the star
\* the hop left.
C2_Witness ==
    /\ Finished
    /\ Len(result.hopSequence) >= 1
    /\ \E i \in StarEntries :
          LET entry == STAR_CATALOG[i]
              from == result.hopSequence[1].fromStar
          IN /\ entry.key \notin visitedStarIds
             /\ entry.key # TargetId
             /\ entry.value.magnitude <= params.maxHopMagnitude
             /\ calculateAngularSeparation(from, entry.value)
                   <= params.fovDegrees
             /\ DistanceToTarget(entry.value) = DistanceToTarget(from)

\* A catalog entry qualifies as the next hop from the current star, under
\* the sky `sky`.
C3_Qualifies(entry, sky) ==
    /\ entry.key \notin visitedStarIds
    /\ entry.key # TargetId
    /\ entry.value.magnitude # Undefined
    /\ entry.value.magnitude <= params.maxHopMagnitude
    /\ calculateAngularSeparation(currentHopStar, entry.value)
          <= params.fovDegrees
    /\ DistanceToTarget(entry.value) < DistanceToTarget(currentHopStar)
    /\ Position(entry.value) \in DOMAIN sky
    /\ sky[Position(entry.value)] > 0

\* C3: whenever the hop loop advances, the star advanced to is a qualifying
\* candidate and no qualifying candidate is strictly nearer to the target.
C3_BestProgress ==
    [][Len(hopSequence') = Len(hopSequence) + 1 =>
          \E i \in StarEntries :
              /\ STAR_CATALOG[i].key = currentHopStar'.id
              /\ Position(STAR_CATALOG[i].value) = Position(currentHopStar')
              /\ C3_Qualifies(STAR_CATALOG[i], horizon')
              /\ \A j \in StarEntries :
                    C3_Qualifies(STAR_CATALOG[j], horizon') =>
                        DistanceToTarget(STAR_CATALOG[j].value)
                            >= DistanceToTarget(STAR_CATALOG[i].value)]_vars

\* The first hop went to a star although a brighter star qualified from
\* the same place: the brighter one is farther from the target.
C3_Witness ==
    /\ Finished
    /\ Len(result.hopSequence) >= 1
    /\ \E i \in StarEntries :
          LET entry == STAR_CATALOG[i]
              hop == result.hopSequence[1]
          IN /\ entry.key # hop.fromStar.id
             /\ entry.key # TargetId
             /\ entry.value.magnitude < hop.toStar.magnitude
             /\ calculateAngularSeparation(hop.fromStar, entry.value)
                   <= params.fovDegrees
             /\ DistanceToTarget(entry.value) < DistanceToTarget(hop.fromStar)
             /\ DistanceToTarget(entry.value) > DistanceToTarget(hop.toStar)
             /\ AboveHorizon(entry.value)

\* Entry i of the star catalog qualifies as a start star.
C4_StartQualifies(i) ==
    LET value == STAR_CATALOG[i].value
    IN /\ value.magnitude # Undefined
       /\ value.magnitude <= params.startStarMagnitudeThreshold
       /\ DistanceToTarget(value) <= params.initialSearchRadiusDegrees
       /\ AboveHorizon(value)

\* C4: the start star is a qualifying entry of the star catalog, no
\* qualifying entry has a lower magnitude, and no qualifying entry of the
\* same magnitude comes earlier in the catalog's iteration order.
C4_BrightestStartStar ==
    startStar # NoStar =>
        /\ \E i \in StarEntries :
              /\ STAR_CATALOG[i].key = startStar.id
              /\ STAR_CATALOG[i].value.magnitude = startStar.magnitude
              /\ Position(STAR_CATALOG[i].value) = Position(startStar)
              /\ C4_StartQualifies(i)
              /\ \A j \in StarEntries :
                    C4_StartQualifies(j) =>
                        \/ STAR_CATALOG[j].value.magnitude
                              > startStar.magnitude
                        \/ /\ STAR_CATALOG[j].value.magnitude
                                 = startStar.magnitude
                           /\ j >= i
        /\ "startStar" \in result.keys => result.startStar = startStar

\* The start star is the second entry: the first qualifies but is dimmer,
\* and the third qualifies with the same magnitude as the second.
C4_Witness ==
    /\ startStar # NoStar
    /\ Len(STAR_CATALOG) >= 3
    /\ STAR_CATALOG[2].key = startStar.id
    /\ C4_StartQualifies(1)
    /\ C4_StartQualifies(3)
    /\ STAR_CATALOG[1].value.magnitude > startStar.magnitude
    /\ STAR_CATALOG[3].value.magnitude = startStar.magnitude

\* A bound on the steps execute() still has to take: the stretches of
\* code ahead of it, and in the hop loop one iteration per star not yet
\* visited.
C5_StepsLeft ==
    CASE pc = "resolve" -> Len(STAR_CATALOG) + 5
      [] pc = "visibility" -> Len(STAR_CATALOG) + 4
      [] pc = "selectStart" -> Len(STAR_CATALOG) + 3
      [] pc = "startFov" -> Len(STAR_CATALOG) + 2
      [] pc = "hop" ->
            Len(STAR_CATALOG) + 1 - Cardinality(visitedStarIds)
      [] OTHER -> 0

\* C5: every invocation terminates and returns exactly one of the six
\* statuses.  execute() is never stuck before its return, every step of it
\* uses up the bound C5_StepsLeft (so no run goes on for ever), nothing
\* is returned before the end, and what is returned then carries one of
\* the six statuses.
C5_TerminatesWithOneStatus ==
    /\ [](Finished \/ ENABLED Next)
    /\ [][C5_StepsLeft' < C5_StepsLeft]_vars
    /\ [](C5_StepsLeft >= 0 /\ (C5_StepsLeft = 0 <=> Finished))
    /\ [](Finished => result.status \in Statuses)
    /\ [](~Finished => result = NoResult)

\* The hop loop ran all its maxHops iterations, each one a hop, and
\* execute() returned.
C5_Witness ==
    /\ Finished
    /\ hopNum > maxHops
    /\ Len(result.hopSequence) = maxHops

\* No level of the resolver knows the target name.
C6_Unresolvable ==
    LET n == toLowerCase(params.targetObjectName)
    IN /\ n \notin SOLAR_SYSTEM_OBJECTS
       /\ ~(\E a \in 1..Len(COMMON_NAMES) :
               /\ COMMON_NAMES[a].key = n
               /\ COMMON_NAMES[a].value \in MapKeys(DSO_CATALOG))
       /\ n \notin MapKeys(STAR_CATALOG)
       /\ n \notin MapKeys(DSO_CATALOG)

\* C6: when the target name cannot be resolved, execute() returns the
\* status TargetNotFound (it does not end in an error) and has scanned the
\* star catalog and asked for an altitude not once.
C6_TargetNotFound ==
    (C6_Unresolvable /\ pc # "resolve") =>
        /\ Finished
        /\ result.status = "TargetNotFound"
        /\ "status" \in result.keys
        /\ scanned = 0
        /\ horizon = <<>>

\* TargetNotFound was returned with a full star catalog at hand.
C6_Witness ==
    /\ Finished
    /\ result.status = "TargetNotFound"
    /\ C6_Unresolvable
    /\ Len(STAR_CATALOG) = MaxStars

\* The target has been resolved and execute() is past its altitude test.
C7_PastVisibility ==
    /\ pc \notin {"resolve", "visibility"}
    /\ result.status # "TargetNotFound"

\* C7: for a resolved target the status is TargetNotVisible exactly when
\* the target's altitude is <= 0; that result carries the target's
\* coordinates, no startStar and no hopSequence, and the star catalog was
\* not scanned for it.
C7_TargetNotVisible ==
    C7_PastVisibility =>
        /\ Position(targetEquatorial) \in DOMAIN horizon
        /\ (Finished /\ result.status = "TargetNotVisible")
              <=> horizon[Position(targetEquatorial)] <= 0
        /\ result.status = "TargetNotVisible" =>
              /\ "targetCoordinates" \in result.keys
              /\ result.targetCoordinates = targetEquatorial
              /\ "startStar" \notin result.keys
              /\ "hopSequence" \notin result.keys
              /\ scanned = 0

\* TargetNotVisible for a target exactly on the horizon, with a bright
\* star of the catalog within the search radius.
C7_Witness ==
    /\ Finished
    /\ result.status = "TargetNotVisible"
    /\ horizon[Position(targetEquatorial)] = 0
    /\ \E i \in StarEntries :
          /\ STAR_CATALOG[i].value.magnitude
                <= params.startStarMagnitudeThreshold
          /\ DistanceToTarget(STAR_CATALOG[i].value)
                <= params.initialSearchRadiusDegrees

\* The target is resolved and above the horizon, and the start-star scan
\* has run.
C8_PastSelection ==
    /\ pc \notin {"resolve", "visibility", "selectStart"}
    /\ result.status # "TargetNotFound"
    /\ Position(targetEquatorial) \in DOMAIN horizon
    /\ horizon[Position(targetEquatorial)] > 0

\* C8: for a resolved target above the horizon the status is
\* NoStartingStarFound exactly when no star-catalog entry has a defined
\* magnitude <= startStarMagnitudeThreshold, a separation to the target
\* <= initialSearchRadiusDegrees and an altitude > 0.
C8_NoStartingStarFound ==
    C8_PastSelection =>
        /\ \A i \in StarEntries :
              (/\ STAR_CATALOG[i].value.magnitude # Undefined
               /\ STAR_CATALOG[i].value.magnitude
                     <= params.startStarMagnitudeThreshold
               /\ DistanceToTarget(STAR_CATALOG[i].value)
                     <= params.initialSearchRadiusDegrees)
                  => Position(STAR_CATALOG[i].value) \in DOMAIN horizon
        /\ (Finished /\ result.status = "NoStartingStarFound")
              <=> ~(\E i \in StarEntries : C4_StartQualifies(i))

\* NoStartingStarFound although the catalog holds a bright star within
\* the radius, which is exactly on the horizon, and a bright star outside
\* the radius.
C8_Witness ==
    /\ Finished
    /\ result.status = "NoStartingStarFound"
    /\ \E i, j \in StarEntries :
          /\ STAR_CATALOG[i].value.magnitude
                <= params.startStarMagnitudeThreshold
          /\ DistanceToTarget(STAR_CATALOG[i].value)
                <= params.initialSearchRadiusDegrees
          /\ horizon[Position(STAR_CATALOG[i].value)] = 0
          /\ STAR_CATALOG[j].value.magnitude
                <= params.startStarMagnitudeThreshold
          /\ DistanceToTarget(STAR_CATALOG[j].value)
                > params.initialSearchRadiusDegrees

\* C9: once a start star is selected whose separation to the target is
\* <= fovDegrees, execute() returns TargetInStartFOV with an empty
\* hopSequence, and the hop loop is not entered.
C9_TargetInStartFOV ==
    (/\ startStar # NoStar
     /\ pc # "startFov"
     /\ DistanceToTarget(startStar) <= params.fovDegrees) =>
        /\ Finished
        /\ result.status = "TargetInStartFOV"
        /\ "hopSequence" \in result.keys
        /\ result.hopSequence = <<>>
        /\ result.startStar = startStar
        /\ hopNum = 0
        /\ scanned = 1

\* TargetInStartFOV with the target exactly fovDegrees from the start star.
C9_Witness ==
    /\ Finished
    /\ result.status = "TargetInStartFOV"
    /\ DistanceToTarget(startStar) = params.fovDegrees

\* Entry i of the star catalog qualifies as the first hop from the start
\* star.
C10_QualifiesFromStart(i) ==
    LET entry == STAR_CATALOG[i]
    IN /\ entry.key # startStar.id
       /\ entry.key # TargetId
       /\ entry.value.magnitude # Undefined
       /\ entry.value.magnitude <= params.maxHopMagnitude
       /\ calculateAngularSeparation(startStar, entry.value)
             <= params.fovDegrees
       /\ DistanceToTarget(entry.value) < DistanceToTarget(startStar)
       /\ AboveHorizon(entry.value)

\* C10: the status is Success exactly when a hop has been made and the
\* star it reached is within fovDegrees of the target; a Success result
\* reports that hop sequence.  And when the start star S is farther than
\* fovDegrees from the target and some star qualifying as a hop from S is
\* within fovDegrees of the target, the result is Success with exactly one
\* hop, from S.
C10_Success ==
    /\ result.status = "Success"
          <=> /\ Len(hopSequence) >= 1
              /\ DistanceToTarget(hopSequence[Len(hopSequence)].toStar)
                    <= params.fovDegrees
    /\ result.status = "Success" =>
          /\ Finished
          /\ result.hopSequence = hopSequence
          /\ result.finalStepFrom = hopSequence[Len(hopSequence)].toStar
    /\ (/\ Finished
        /\ startStar # NoStar
        /\ DistanceToTarget(startStar) > params.fovDegrees
        /\ \E i \in StarEntries :
              /\ C10_QualifiesFromStart(i)
              /\ DistanceToTarget(STAR_CATALOG[i].value) <= params.fovDegrees)
          => /\ result.status = "Success"
             /\ Len(result.hopSequence) = 1
             /\ result.hopSequence[1].fromStar = startStar

\* Success with one hop S -> A: the target is not in S's field and is
\* exactly fovDegrees from A.
C10_Witness ==
    /\ Finished
    /\ result.status = "Success"
    /\ Len(result.hopSequence) = 1
    /\ result.hopSequence[1].fromStar = startStar
    /\ DistanceToTarget(startStar) > params.fovDegrees
    /\ DistanceToTarget(result.hopSequence[1].toStar) = params.fovDegrees

\* No catalog star qualifies as the next hop from the current star, under
\* the sky `sky`.
C11_NoCandidate(sky) ==
    \A i \in StarEntries : ~C3_Qualifies(STAR_CATALOG[i], sky)

\* The hops of `hops` are numbered from 1 and lead from the start star on,
\* each leaving from where the one before arrived.
C11_InOrder(hops) ==
    \A k \in 1..Len(hops) :
        /\ hops[k].hopNumber = k
        /\ hops[k].fromStar
              = IF k = 1 THEN startStar ELSE hops[k - 1].toStar

\* C11: an iteration of the hop loop that finds no qualifying star returns
\* PathNotFound with exactly the hops made before it, in order: as many as
\* iterations went before, none when it is the first iteration.
C11_PathNotFoundPartial ==
    [][(pc = "hop" /\ hopNum <= maxHops /\ C11_NoCandidate(horizon')) =>
          /\ pc' = "done"
          /\ result'.status = "PathNotFound"
          /\ "hopSequence" \in result'.keys
          /\ result'.hopSequence = hopSequence
          /\ Len(result'.hopSequence) = hopNum - 1
          /\ C11_InOrder(result'.hopSequence)
          /\ hopNum = 1 => result'.hopSequence = <<>>]_vars

\* PathNotFound after one hop: the second iteration, within maxHops, found
\* no star to go on to.
C11_Witness ==
    /\ Finished
    /\ result.status = "PathNotFound"
    /\ hopNum = 2
    /\ hopNum <= maxHops
    /\ Len(result.hopSequence) = 1
    /\ C11_NoCandidate(horizon)

\* The number of hops the caller allows: maxHops, 20 when left out.
C12_Allowed == IF params.maxHops = Undefined THEN 20 ELSE params.maxHops

\* All the allowed hops have been made and the last one did not bring the
\* target into the field.
C12_Exhausted ==
    /\ Len(hopSequence) = C12_Allowed
    /\ DistanceToTarget(hopSequence[Len(hopSequence)].toStar)
          > params.fovDegrees

\* C12: hopSequence, in the loop and in the result, never holds more than
\* maxHops hops (20 when maxHops is left out) and its hops are numbered
\* 1, 2, ..., n; once maxHops hops are made without the target coming into
\* the field, the loop makes no further scan and execute() returns
\* PathNotFound with all maxHops hops.
C12_MaxHops ==
    /\ [](/\ Len(hopSequence) <= C12_Allowed
          /\ Len(result.hopSequence) <= C12_Allowed
          /\ \A k \in 1..Len(hopSequence) : hopSequence[k].hopNumber = k
          /\ \A k \in 1..Len(result.hopSequence) :
                result.hopSequence[k].hopNumber = k)
    /\ []((C12_Exhausted /\ Finished) =>
              /\ result.status = "PathNotFound"
              /\ result.hopSequence = hopSequence
              /\ Len(result.hopSequence) = C12_Allowed)
    /\ [][(C12_Exhausted /\ ~Finished) =>
              /\ pc' = "done"
              /\ result'.status = "PathNotFound"
              /\ result'.hopSequence = hopSequence
              /\ scanned' = scanned]_vars

\* PathNotFound with exactly maxHops hops reported, the last of them still
\* short of the target, while a star to go on to was at hand.
C12_Witness ==
    /\ Finished
    /\ result.status = "PathNotFound"
    /\ params.maxHops # Undefined
    /\ Len(result.hopSequence) = params.maxHops
    /\ C12_Exhausted
    /\ \E i \in StarEntries :
          /\ STAR_CATALOG[i].key \notin visitedStarIds
          /\ STAR_CATALOG[i].value.magnitude <= params.maxHopMagnitude
          /\ calculateAngularSeparation(currentHopStar, STAR_CATALOG[i].value)
                <= params.fovDegrees
          /\ DistanceToTarget(STAR_CATALOG[i].value)
                < DistanceToTarget(currentHopStar)

\* Two records of one star: the same name, position and magnitude, under
\* whatever key each is stored.
C13_SameObject(a, b) ==
    /\ a.name = b.name
    /\ Position(a) = Position(b)
    /\ a.magnitude = b.magnitude

\* In `hops` no hop arrives at the target object, nor at the start star or
\* a star an earlier hop arrived at, by key or by record.
C13_Fresh(hops) ==
    \A k \in 1..Len(hops) :
        LET to == hops[k].toStar
        IN /\ to.id # TargetId
           /\ ~C13_SameObject(to, targetEquatorial)
           /\ to.id # startStar.id
           /\ ~C13_SameObject(to, startStar)
           /\ \A j \in 1..(k - 1) :
                 /\ to.id # hops[j].toStar.id
                 /\ ~C13_SameObject(to, hops[j].toStar)

\* C13: no hop, in the loop or in the result, goes to the target object
\* itself, under the key of the name the caller gave or under another key
\* of the star catalog, and no hop goes to the start star or to a star an
\* earlier hop went to.
C13_NotTargetNotVisited ==
    /\ C13_Fresh(hopSequence)
    /\ C13_Fresh(result.hopSequence)

\* A hop was made while the target was itself a star of the catalog, bright
\* enough for a hop.
C13_Witness ==
    /\ Finished
    /\ Len(result.hopSequence) >= 1
    /\ \E i \in StarEntries :
          /\ C13_SameObject(STAR_CATALOG[i].value, targetEquatorial)
          /\ STAR_CATALOG[i].value.magnitude <= params.maxHopMagnitude

(***************************************************************************)
(* Properties of the resolver and of the process.                          *)
(***************************************************************************)
C14_Has(map, k) == \E i \in 1..Len(map) : map[i].key = k

C14_Get(map, k) == map[CHOOSE i \in 1..Len(map) : map[i].key = k].value

\* What the first level that knows the lower-cased name n answers: the
\* ephemeris for one of the eleven solar-system names, else the deep-sky
\* record the alias leads to, else the star, else the deep-sky object.
C14_FirstMatch(n, outcome) ==
    IF n \in {"sun", "moon", "mercury", "venus", "earth", "mars", "jupiter",
              "saturn", "uranus", "neptune", "pluto"}
      THEN outcome.threw \/ outcome.coords.name = ""
    ELSE IF /\ C14_Has(COMMON_NAMES, n)
            /\ C14_Has(DSO_CATALOG, C14_Get(COMMON_NAMES, n))
      THEN /\ ~outcome.threw
           /\ outcome.coords = C14_Get(DSO_CATALOG, C14_Get(COMMON_NAMES, n))
    ELSE IF C14_Has(STAR_CATALOG, n)
      THEN ~outcome.threw /\ outcome.coords = C14_Get(STAR_CATALOG, n)
    ELSE IF C14_Has(DSO_CATALOG, n)
      THEN ~outcome.threw /\ outcome.coords = C14_Get(DSO_CATALOG, n)
    ELSE outcome.threw

\* C14: the resolver answers a name, whatever its casing, from the first of
\* the levels solar-system set, alias table (the deep-sky record the alias
\* leads to), star catalog, deep-sky catalog that knows it.
C14_FirstMatchWins ==
    lookup.request = "getEquatorialCoordinates" =>
        C14_FirstMatch(toLowerCase(lookup.name), lookup.outcome)

\* No level knows the name: it is none of the eleven solar-system names,
\* no alias, no star key, no deep-sky key.
C15_Unknown(name) ==
    LET n == toLowerCase(name)
    IN /\ n \notin {"sun", "moon", "mercury", "venus", "earth", "mars",
                    "jupiter", "saturn", "uranus", "neptune", "pluto"}
       /\ ~C14_Has(COMMON_NAMES, n)
       /\ ~C14_Has(STAR_CATALOG, n)
       /\ ~C14_Has(DSO_CATALOG, n)

\* The message of an error names `text`, letter for letter.
C15_Mentions(message, text) ==
    \E before \in {"Unknown celestial object: ",
                   "Unknown solar system object: "} :
        \E after \in {"", ". Try running 'npm run fetch-catalogs'"} :
            message = before \o text \o after

\* C15: for a name no level knows the resolver raises an error whose
\* message holds the name as the caller wrote it, in its original casing.
C15_ErrorKeepsInput ==
    (lookup.request = "getEquatorialCoordinates"
        /\ C15_Unknown(lookup.name)) =>
        /\ lookup.outcome.threw
        /\ C15_Mentions(lookup.outcome.message, lookup.name)

\* A tool request has been taken up: the resolver has answered one, or
\* execute() has been entered.
C16_RequestServed == lookup.request # "" \/ pc # "idle"

\* C16: initializeCatalogs runs exactly once in the life of the process,
\* and that run has completed when tool requests are served.
C16_OneIngestionBeforeServing ==
    /\ ingestionRuns <= 1
    /\ (phase = "serving" \/ C16_RequestServed) => ingestionRuns = 1

\* The answer the last request got is an answer the same request gets
\* when it runs alone on the catalogs as they are now.
C17_AsIfAlone ==
    CASE lookup.request = "getEquatorialCoordinates" ->
            lookup.outcome \in getEquatorialCoordinates(lookup.name)
      [] lookup.request = "getCelestialDetails" ->
            lookup.outcome \in CelestialDetails(lookup.name)
      [] lookup.request = "listCelestialObjects" ->
            lookup.outcome = listCelestialObjects(lookup.name)
      [] lookup.request = "ephemerisStream" ->
            lookup.outcome \in EphemerisFrames(lookup.name)
      [] OTHER -> TRUE

\* The target position a star-hopping request works with is still what the
\* resolver answers for its target name.
C17_TargetCurrent ==
    (pc \notin {"idle", "resolve"} /\ result.status # "TargetNotFound") =>
        Returned(targetEquatorial)
            \in getEquatorialCoordinates(params.targetObjectName)

\* C17: once tools are served, no step of any request adds, replaces or
\* removes an entry of the star catalog, the deep-sky catalog or the alias
\* table; so whatever requests ran in between, each request's answer is the
\* one it gets when run alone.
C17_RequestsOnlyRead ==
    /\ [][phase = "serving" =>
            UNCHANGED <<STAR_CATALOG, DSO_CATALOG, COMMON_NAMES>>]_vars
    /\ [](C17_AsIfAlone /\ C17_TargetCurrent)

\* A request was answered while a star-hopping request was suspended at its
\* await, and the star-hopping request went on to return a path with a hop.
C17_Witness ==
    /\ lookup.request # ""
    /\ lookup.during = "visibility"
    /\ pc = "done"
    /\ Len(result.hopSequence) >= 1

(***************************************************************************)
(* Properties of ingestion.                                                *)
(***************************************************************************)
\* The records of a catalog.
C18_Records(catalog) == {catalog[i].value : i \in 1..Len(catalog)}

\* C18: every record of the star catalog and of the deep-sky catalog has a
\* right ascension and a declination, and neither is NaN, whatever rows the
\* files held and however often they were loaded.
C18_CoordinatesPresent ==
    \A record \in C18_Records(STAR_CATALOG) \cup C18_Records(DSO_CATALOG) :
        /\ record.rightAscension \notin {Undefined, NaN}
        /\ record.declination \notin {Undefined, NaN}

\* C19: the declination of every stored record lies between -90 and 90
\* degrees; a row with a declination outside that range is not stored.
C19_DeclinationInRange ==
    \A record \in C18_Records(STAR_CATALOG) \cup C18_Records(DSO_CATALOG) :
        /\ IsFinite(record.declination)
        /\ record.declination >= -90
        /\ record.declination <= 90

\* A field that holds no value: missing, empty, or blank.
C20_Blank(text) == text \in {NoColumn, "", "  "}

\* A field that is missing or empty.
C20_Empty(text) == text \in {NoColumn, ""}

\* The magnitude of the row is a number below 6.0.
C20_Bright(row) == row.mag # NoColumn /\ JsLess(parseFloat(row.mag), 6)

\* The first available of proper name, Bayer/Flamsteed designation,
\* 'HIP n', 'HD n', and for a bright row 'Star mag X.X[ in con]'.
C20_Name(row) ==
    CASE ~C20_Blank(row.proper) -> trim(row.proper)
      [] C20_Blank(row.proper) /\ ~C20_Blank(row.bf) -> trim(row.bf)
      [] C20_Blank(row.proper) /\ C20_Blank(row.bf) /\ ~C20_Blank(row.hip) ->
            "HIP " \o trim(row.hip)
      [] /\ C20_Blank(row.proper) /\ C20_Blank(row.bf)
         /\ C20_Blank(row.hip) /\ ~C20_Blank(row.hd) ->
            "HD " \o trim(row.hd)
      [] OTHER ->
            "Star mag " \o toFixed1(parseFloat(row.mag))
                \o (IF C20_Blank(row.con) THEN "" ELSE " in " \o trim(row.con))

\* The row has a right ascension and a declination that are numbers.
C20_ValidCoordinates(row) ==
    /\ ~C20_Empty(row.ra) /\ ~isNaN(parseFloat(row.ra))
    /\ ~C20_Empty(row.dec) /\ ~isNaN(parseFloat(row.dec))

\* None of proper, bf, hip and hd holds a value.
C20_Nameless(row) ==
    /\ C20_Blank(row.proper) /\ C20_Blank(row.bf)
    /\ C20_Blank(row.hip) /\ C20_Blank(row.hd)

\* After ingestion of a HYG file the star catalog holds exactly the rows
\* with valid coordinates that LeftOut does not leave out, each under its
\* name.
C20_NamedAndFiltered(LeftOut(_)) ==
    (IsHygFile(dataDir.star) /\ ingestionRuns >= 1) =>
        LET rows == dataDir.star.rows
            loaded == {rows[i] : i \in {k \in 1..Len(rows) :
                          /\ C20_ValidCoordinates(rows[k])
                          /\ ~LeftOut(rows[k])}}
        IN /\ MapKeys(STAR_CATALOG) = {toLowerCase(C20_Name(r)) : r \in loaded}
           /\ \A i \in 1..Len(STAR_CATALOG) :
                \E r \in loaded :
                    /\ STAR_CATALOG[i].key = toLowerCase(C20_Name(r))
                    /\ STAR_CATALOG[i].value.name = C20_Name(r)

\* The claim as stated: a row is left out only when it has none of proper,
\* bf, hip and hd and is not brighter than magnitude 6.0.
C20_LeftOutAsStated(row) == C20_Nameless(row) /\ ~C20_Bright(row)

\* C20 as stated: a HYG row with valid coordinates is stored under the
\* first available of its names, and is left out only when it has none of
\* proper, bf, hip and hd and its magnitude is 6.0 or more.
C20_HygNamingAsStated == C20_NamedAndFiltered(C20_LeftOutAsStated)

\* A row is left out when it is not brighter than magnitude 6.0 and either
\* its proper and bf fields are both empty or it has no name at all.
C20_LeftOut(row) ==
    /\ ~C20_Bright(row)
    /\ \/ C20_Empty(row.proper) /\ C20_Empty(row.bf)
       \/ C20_Nameless(row)

\* C20: a HYG row with valid coordinates is stored under the first
\* available of proper name, Bayer/Flamsteed designation, 'HIP n', 'HD n',
\* 'Star mag X.X[ in con]'; it is left out exactly when its magnitude is not
\* below 6.0 and its proper and bf fields are both empty or no name is
\* available, so a row with only a hip or hd number is loaded only when it
\* is brighter than magnitude 6.0.
C20_HygNaming == C20_NamedAndFiltered(C20_LeftOut)

\* A file with a row of magnitude 6 that has only a Henry Draper number,
\* left out, and a row of magnitude 5 that has only a Hipparcos number,
\* stored as 'HIP 32349'.
C20_Witness ==
    /\ IsHygFile(dataDir.star)
    /\ ingestionRuns >= 1
    /\ Len(dataDir.star.rows) = 2
    /\ dataDir.star.rows[1] = HygRow("", "", "", "48915", "1", "0", "6", "")
    /\ dataDir.star.rows[2] = HygRow("", "", "32349", "", "1", "0", "5", "")
    /\ MapKeys(STAR_CATALOG) = {"hip 32349"}

\* The key of the catalog name of an OpenNGC row.
C21_NameKey(row) == toLowerCase(StripLeadingZeros(row.Name))

\* The key 'm' + n of the Messier number of an OpenNGC row.
C21_MessierKey(row) == "m" \o MessierNumber(row.M)

\* The row has a name, valid coordinates and a Messier number.
C21_CrossReferenced(row) ==
    /\ Truthy(row.Name)
    /\ OpenNgcRa(row.RA) \notin {Undefined, NaN}
    /\ OpenNgcDec(row.Dec) \notin {Undefined, NaN}
    /\ Truthy(row.M) /\ MessierNumber(row.M) # "NaN"

\* No row after row i writes one of the two keys of row i.
C21_NotReplaced(rows, i) ==
    \A j \in (i + 1)..Len(rows) :
        {C21_NameKey(rows[j]), C21_MessierKey(rows[j])}
            \cap {C21_NameKey(rows[i]), C21_MessierKey(rows[i])} = {}

C22_Sexagesimal(parts) ==
    /\ Len(parts) = 3
    /\ \E sign \in {"", "+", "-"}, dd \in {"00", "01", "89"} :
          parts[1] = sign \o dd
    /\ parts[2] \in {"00", "30", "59"}
    /\ parts[3] \in {"00", "30", "59"}

\* DD of the text, without its sign.
C22_Degrees(parts) ==
    CHOOSE n \in {0, 1, 89} :
        \E sign \in {"", "+", "-"}, dd \in {"00", "01", "89"} :
            parts[1] = sign \o dd /\ parseFloat(dd) = n

\* The raw text starts with '-'.
C22_Negative(parts) == \E dd \in {"00", "01", "89"} : parts[1] = "-" \o dd

\* C22: a declination text sDD:MM:SS parses to sign * (DD + MM/60 +
\* SS/3600), here in seconds of arc, with a negative sign exactly when the
\* text starts with '-'; '-00:30:00' parses to -0.5 degrees, -1800".
C22_SignOfWholeValue ==
    (call.operation = "parseDeclination" /\ C22_Sexagesimal(call.input)) =>
        LET size == C22_Degrees(call.input) * 3600
                      + parseFloat(call.input[2]) * 60
                      + parseFloat(call.input[3])
        IN /\ call.output = IF C22_Negative(call.input) THEN -size ELSE size
           /\ call.input = <<"-00", "30", "00">> => call.output = -1800

\* '-00:30:00' has been parsed.
C22_Witness ==
    /\ call.operation = "parseDeclination"
    /\ call.input = <<"-00", "30", "00">>
    /\ call.output < 0

\* The largest catalog number written out for the patterns.
C23_MaxNumber == 2000

\* The keys that match ^m\d+$, ^ic\d+$ and ^ngc\d+$.
C23_MessierKeys == {"m" \o ToString(n) : n \in 0..C23_MaxNumber}

C23_IcKeys == {"ic" \o ToString(n) : n \in 0..C23_MaxNumber}

C23_NgcKeys == {"ngc" \o ToString(n) : n \in 0..C23_MaxNumber}

\* The group the pattern of a key decides.
C23_GroupOf(key) ==
    IF key \in C23_MessierKeys THEN "Messier Objects"
    ELSE IF key \in C23_IcKeys THEN "IC Objects"
    ELSE IF key \in C23_NgcKeys THEN "NGC Objects"
    ELSE "Other Deep Sky Objects"

C23_DsoGroups ==
    {"Messier Objects", "IC Objects", "NGC Objects", "Other Deep Sky Objects"}

\* The number a listed name of a numbered group ends with.
C23_Suffixes ==
    {<<prefix \o ToString(n), n>> :
        prefix \in {"M", "Ic", "Ngc"}, n \in 0..C23_MaxNumber}

C23_Suffix(name) ==
    (CHOOSE numbered \in C23_Suffixes : numbered[1] = name)[2]

\* The place of a name in the lexicographic order.
C23_Place(name) ==
    CHOOSE i \in 1..Len(CodeUnitOrder) : CodeUnitOrder[i] = name

\* The deep-sky keys that pass the filters of a request.
C23_Passing(p) ==
    {DSO_CATALOG[i].key : i \in {k \in 1..Len(DSO_CATALOG) :
        LET record == DSO_CATALOG[k].value IN
        /\ p.minMagnitude # Undefined =>
              (record.magnitude # Undefined
                 /\ record.magnitude <= p.minMagnitude)
        /\ p.constellation # NoColumn =>
              (record.constellation # NoColumn
                 /\ toLowerCase(record.constellation)
                      = toLowerCase(p.constellation))}}

\* How often `name` is listed in the group `category` of `groups`.
C23_Listed(groups, category, name) ==
    Cardinality(UNION {
        {<<g, i>> : i \in {k \in 1..Len(groups[g].objects) :
                              groups[g].objects[k] = name}} :
        g \in {h \in 1..Len(groups) : groups[h].category = category}})

\* The deep-sky groups of a listing hold each of `keys` once, in the group
\* of its pattern, and each group is in its order.
C23_Partitioned(groups, keys) ==
    /\ \A key \in keys, category \in C23_DsoGroups :
          C23_Listed(groups, category, Capitalize(key))
            = IF category = C23_GroupOf(key) THEN 1 ELSE 0
    /\ \A g \in 1..Len(groups) :
          LET objects == groups[g].objects IN
          groups[g].category \in C23_DsoGroups =>
              \A i, j \in 1..Len(objects) :
                  i < j =>
                      IF groups[g].category = "Other Deep Sky Objects"
                        THEN C23_Place(objects[i]) < C23_Place(objects[j])
                      ELSE C23_Suffix(objects[i]) <= C23_Suffix(objects[j])

\* C23: in a listing of the deep-sky objects every key of the deep-sky
\* catalog that passes the filters is listed once, in the group its
\* pattern decides (Messier, IC, NGC, else Other); the Messier, IC and NGC
\* groups are in ascending order of the number, Other in lexicographic order.
\* This holds of the tool's answer and of listCelestialObjects.
C23_GroupedAndSorted ==
    /\ C23_Partitioned(listCelestialObjects("dso"), MapKeys(DSO_CATALOG))
    /\ (/\ call.operation = "listCelestialObjects"
        /\ call.input.category \in {NoColumn, "all", "dso"}
        /\ call.input.limit = Undefined)
       => C23_Partitioned(call.output, C23_Passing(call.input))

\* The deep-sky objects of ngc.csv were listed, the Messier objects among
\* them in the order 1, 31, 110.
C23_Witness ==
    /\ call.operation = "listCelestialObjects"
    /\ call.input.category = "dso"
    /\ call.input.limit = Undefined
    /\ call.input.minMagnitude = Undefined
    /\ call.input.constellation = NoColumn
    /\ call.output[1].objects = <<"M1", "M31", "M110">>
    /\ call.output[3].objects = <<"Ngc205", "Ngc224", "Ngc1952">>
    /\ call.output[4].objects = <<"Mnan">>

\* The category of the catalogs a group of an answer lists.
C24_Category(label) ==
    IF label \in DOMAIN TargetCategory THEN TargetCategory[label] ELSE label

\* `items` without its first `offset` entries, cut to `limit` entries.
C24_Page(items, offset, limit) ==
    LET skip == IF offset = Undefined THEN 0 ELSE offset
        rest == IF skip >= Len(items) THEN <<>>
                ELSE SubSeq(items, skip + 1, Len(items))
    IN IF limit = Undefined \/ limit >= Len(rest) THEN rest
       ELSE SubSeq(rest, 1, limit)

\* C24: every category of a listing holds the filtered, sorted names of the
\* category without the first `offset` of them and cut to `limit` names;
\* the offset counts also when no limit is given.
C24_OffsetHonoured ==
    call.operation = "listCelestialObjects" =>
        \A g \in 1..Len(call.output) :
            call.output[g].objects
              = C24_Page(CategoryNames(C24_Category(call.output[g].category),
                                       call.input),
                         call.input.offset, call.input.limit)

\* C25: the degrees calculateBearing returns, rounded to one decimal, are
\* at least 0 and below 360 (here in tenths of a degree).
C25_DegreesNormalized ==
    call.operation = "calculateBearing" =>
        (0 <= call.output.degrees /\ call.output.degrees < 3600)

\* The bearing, from 0 up to 360 degrees, of a position angle.
C26_Bearing(positionAngle) == positionAngle % 360000

\* How far the compass point `point` (0 to 15) is from a bearing, around
\* the circle; the bearing and the distance are in halves of a thousandth
\* of a degree.
C26_Away(bearing, point) ==
    LET apart == (bearing - point * 45000) % 720000
    IN IF apart > 360000 THEN 720000 - apart ELSE apart

\* The points 0..15 whose name is `cardinal`.
C26_Points(cardinal) ==
    {n \in 0..15 : <<"N", "NNE", "NE", "ENE", "E", "ESE", "SE", "SSE", "S",
                     "SSW", "SW", "WSW", "W", "WNW", "NW", "NNW">>[n + 1]
                   = cardinal}

\* The cardinal direction is a compass point as near to `bearing` as any.
C26_NearestTo(cardinal, bearing) ==
    \E n \in C26_Points(cardinal) :
        \A other \in 0..15 : C26_Away(bearing, n) <= C26_Away(bearing, other)

C26_NearestPointBiased ==
    call.operation = "calculateBearing" =>
        LET bearing == C26_Bearing(call.input) IN
        /\ C26_Points(call.output.cardinal) # {}
        /\ C26_NearestTo(call.output.cardinal, 2 * bearing + 45)
        /\ bearing = 0 => call.output.cardinal = "N"
        /\ bearing = 90000 => call.output.cardinal = "E"
        /\ bearing = 180000 => call.output.cardinal = "S"
        /\ bearing = 270000 => call.output.cardinal = "W"
        /\ bearing > 360000 - 11000 => call.output.cardinal = "N"

\* A bearing of 359.999 degrees was given the direction N.
C26_Witness ==
    /\ call.operation = "calculateBearing"
    /\ call.input = -1
    /\ call.output.cardinal = "N"

\* C27: calculateAngularSeparation returns a number from 0 to 180 degrees,
\* never NaN, also for identical and for antipodal positions and however
\* the cosine is rounded, and the same number with its arguments exchanged.
C27_InRangeAndSymmetric ==
    call.operation = "calculateAngularSeparation" =>
        /\ call.output \in 0..180
        /\ call.output # NaN
        /\ call.output = AngularSeparation(call.input[2], call.input[1],
                                           call.input[3])
        /\ call.input[1] = call.input[2] => call.output = 0

\* The separation of two antipodal positions was computed from a cosine
\* that came out below -1.
C27_Witness ==
    /\ call.operation = "calculateAngularSeparation"
    /\ call.input[1] = [name |-> "", rightAscension |-> 0,
                        declination |-> 45, magnitude |-> Undefined]
    /\ call.input[2] = [name |-> "", rightAscension |-> 12,
                        declination |-> -45, magnitude |-> Undefined]
    /\ call.input[3] = -1
    /\ call.output = 180

\* The common names a row of the data files may bear.
C28_CommonNames == {"Andromeda Galaxy"}

\* C28: after any number of loads every value of COMMON_NAMES is a key of
\* DSO_CATALOG, so the resolver answers a name found in the alias table
\* with the deep-sky record under the alias's value.
C28_AliasesLeadToRecords ==
    /\ \A a \in 1..Len(COMMON_NAMES) :
          C14_Has(DSO_CATALOG, COMMON_NAMES[a].value)
    /\ \A n \in C28_CommonNames :
          C14_Has(COMMON_NAMES, toLowerCase(n)) =>
              getEquatorialCoordinates(n) =
                  {Returned(C14_Get(DSO_CATALOG,
                                    C14_Get(COMMON_NAMES, toLowerCase(n))))}

\* A generic deep-sky file of two rows with the same common name was
\* loaded twice: one row was stored with its alias, the other was skipped.
C28_Witness ==
    /\ ingestionRuns = RunsBeforeServing
    /\ dataDir.dso # NoFile /\ ~IsOpenNgcFile(dataDir.dso)
    /\ Len(dataDir.dso.rows) = 2
    /\ \A i \in 1..2 : dataDir.dso.rows[i].common_name = "Andromeda Galaxy"
    /\ dataDir.dso.rows[1].name = "M31" /\ dataDir.dso.rows[2].name = "M31"
    /\ Len(DSO_CATALOG) = 1
    /\ Len(COMMON_NAMES) = 1
    /\ \E i \in 1..2 : isNaN(GenericRa(dataDir.dso.rows[i]))

\* C29: for a name outside the solar-system set, getObjectDetails computes
\* the rise and set times from the catalog record that
\* getEquatorialCoordinates returned for that name to the same request.
C29_SameRecord ==
    (/\ lookup.request = "getCelestialDetails"
     /\ ~lookup.outcome.threw
     /\ ~SolarSystemLookup(toLowerCase(lookup.name)))
    => lookup.outcome.riseSetOf = lookup.outcome.coords

\* The weaker statement: the record the times are computed from has the
\* right ascension and declination of the record the resolver returned.
C29_SamePosition ==
    (/\ lookup.request = "getCelestialDetails"
     /\ ~lookup.outcome.threw
     /\ ~SolarSystemLookup(toLowerCase(lookup.name)))
    => /\ lookup.outcome.riseSetOf.rightAscension
              = lookup.outcome.coords.rightAscension
       /\ lookup.outcome.riseSetOf.declination
              = lookup.outcome.coords.declination

\* The fields of a catalog record, the identity of the object apart.
C30_Fields(record) ==
    [field \in DOMAIN record \ {"object"} |-> record[field]]

\* The keys of a catalog in their order, each with the fields of its record.
C30_Content(catalog) ==
    [i \in 1..Len(catalog) |->
        [key |-> catalog[i].key, value |-> C30_Fields(catalog[i].value)]]

\* C30: the second run of initializeCatalogs over the same data files
\* leaves STAR_CATALOG, DSO_CATALOG and COMMON_NAMES with the keys and the
\* field values they had after the first run.
C30_Idempotent ==
    [][(ingestionRuns = 1 /\ ingestionRuns' = RunsBeforeServing) =>
          /\ C30_Content(STAR_CATALOG') = C30_Content(STAR_CATALOG)
          /\ C30_Content(DSO_CATALOG') = C30_Content(DSO_CATALOG)
          /\ COMMON_NAMES' = COMMON_NAMES]_vars

\* initializeCatalogs ran twice over an OpenNGC file of two rows that
\* write the same keys with different coordinates and that register an
\* alias.
C30_Witness ==
    /\ ingestionRuns = RunsBeforeServing
    /\ dataDir.dso # NoFile /\ IsOpenNgcFile(dataDir.dso)
    /\ Len(dataDir.dso.rows) = 2
    /\ Len(DSO_CATALOG) = 2
    /\ Len(COMMON_NAMES) = 1
    /\ C14_Has(DSO_CATALOG, "ngc224") /\ C14_Has(DSO_CATALOG, "m31")
    /\ OpenNgcRa(dataDir.dso.rows[1].RA) = 0
    /\ OpenNgcRa(dataDir.dso.rows[2].RA) = 1
    /\ C14_Get(DSO_CATALOG, "ngc224").rightAscension = 1

=============================================================================
